---- MODULE Spec2Model ----
(***************************************************************************)
(* MAVLink FTP server of libraries/GCS_MAVLink/GCS_FTP.cpp: the decoder    *)
(* (handle_file_transfer_protocol), the request queue, the worker thread   *)
(* (ftp_worker) with its session state, retransmit cache, opcode dispatch, *)
(* burst read loop and reply pump (ftp_push_replies).                      *)
(***************************************************************************)
EXTENDS Integers, Sequences, FiniteSets, TLC

VARIABLES
    ftp_disabled,   \* AP_BoardConfig::ftp_disabled(), a board option
    requests,       \* ftp.requests: NullPtr or the queued pending_ftp records
    worker,         \* TRUE once thread_create started ftp_worker
    worker_chan,    \* chan of the GCS_MAVLINK object ftp_worker is bound to
    fd,             \* ftp.fd, -1 when no file is open
    mode,           \* ftp.mode
    current_session,\* ftp.current_session
    last_send_ms,   \* ftp.last_send_ms
    need_banner_send_mask, \* ftp.need_banner_send_mask
    reply,          \* ftp_worker's local "reply": the retransmit cache
    files,          \* filesystem: path of each file that exists -> content
    handles,        \* filesystem: open handle -> [path, pos]
    clock,          \* AP_HAL::millis()
    gcs,            \* behaviour of the ground station feeding the decoder
    obs,            \* what the last turn of the worker did
    hist,           \* what is remembered of the transmissions so far
    txroom          \* send_ftp_reply finds headroom and payload space

vars == <<ftp_disabled, requests, worker, worker_chan, fd, mode,
          current_session, last_send_ms, need_banner_send_mask, reply,
          files, handles, clock, gcs, obs, hist, txroom>>

-----------------------------------------------------------------------------
(* Bounds of the model *)

\* largest value of the millisecond clock
MaxTime == 3001

-----------------------------------------------------------------------------
(* Program constants *)

FTP_SESSION_TIMEOUT == 3000
QueueSize == 5
DataSize == 239
transfer_size == 500
U16 == 65536

OpNone == 0
OpTerminateSession == 1
OpResetSessions == 2
OpListDirectory == 3
OpOpenFileRO == 4
OpReadFile == 5
OpCreateFile == 6
OpWriteFile == 7
OpRemoveFile == 10
OpCreateDirectory == 11
OpRemoveDirectory == 12
OpOpenFileWO == 13
OpTruncateFile == 14
OpBurstReadFile == 15
OpRename == 16
OpCalcFileCRC32 == 17
OpAck == 128
OpNack == 129

ErrFail == 1
ErrFailErrno == 2
ErrInvalidDataSize == 3
ErrInvalidSession == 4
ErrEndOfFile == 6
ErrFileExists == 8
ErrFileNotFound == 9

ENOENT == 2
EIO == 5
EEXIST == 17

NoFd == -1
NoSession == -1
\* nullptr: a value that is no sequence, so no queue and no directory
NullPtr == [p \in {0} |-> 0]
ModeRead == "Read"
ModeWrite == "Write"

-----------------------------------------------------------------------------
(* Bytes and C strings.  A data buffer of 239 bytes is a sequence of at    *)
(* most 239 bytes; the bytes after its end are zero.                       *)

Min(a, b) == IF a < b THEN a ELSE b

\* a - b in uint32_t.  The offsets and times of the model stay far below
\* 2^31, the largest integer TLC has; a wrapped difference (a < b) is
\* a - b + 2^32, above everything it is compared with, and stands as 2^31 - 1
U32Sub(a, b) == IF a >= b THEN a - b ELSE 2147483647

\* data[i], i counted from 0
Byte(data, i) == IF i + 1 <= Len(data) THEN data[i + 1] ELSE 0

\* the buffer without its trailing zero bytes
Trim(data) ==
    LET nz == {k \in 1..Len(data) : data[k] # 0}
    IN IF nz = {} THEN <<>>
       ELSE SubSeq(data, 1, CHOOSE k \in nz : \A m \in nz : m <= k)

\* data[i] = v
SetByte(data, i, v) ==
    IF i + 1 > Len(data) /\ v = 0 THEN Trim(data)
    ELSE Trim([k \in 1..(IF i + 1 > Len(data) THEN i + 1 ELSE Len(data)) |->
                 IF k = i + 1 THEN v ELSE Byte(data, k - 1)])

\* strnlen(data + from, max); the bytes after the end of data are zero
strnlen(data, from, max) ==
    LET lim == Min(max, IF Len(data) > from THEN Len(data) - from ELSE 0)
        zs == {n \in 0..(lim - 1) : data[from + n + 1] = 0}
    IN IF zs = {} THEN lim ELSE CHOOSE n \in zs : \A m \in zs : n <= m

\* the C string of at most max bytes that starts at data + from
CStr(data, from, max) ==
    LET n == strnlen(data, from, max)
    IN [k \in 1..n |-> data[from + k]]

\* "@PARAM/param.pck"
ParamPck == <<64, 80, 65, 82, 65, 77, 47, 112, 97, 114, 97, 109, 46, 112, 99, 107>>
\* "/a"
PathA == <<47, 97>>
\* "/x", a file that does not exist
PathX == <<47, 120>>
\* "/"
PathRoot == <<47>>

\* strncmp(data, "@PARAM/param.pck", 16) == 0
IsParamPck(data) == \A k \in 0..15 : Byte(data, k) = ParamPck[k + 1]

\* put_le32_ptr(buf, v) on a zeroed buffer
put_le32(v) ==
    Trim(<<v % 256, (v \div 256) % 256, (v \div 65536) % 256,
           (v \div 16777216) % 256>>)

-----------------------------------------------------------------------------
(* The filesystem adapter AP::FS(): files by path, open handles with a     *)
(* position.  A call fails with errno when the injected fault names it.    *)

NoFault == [call |-> "none", errno |-> 0]

\* the files that exist are those F maps
NoFile(F, path) == path \notin DOMAIN F

\* number of calls of that name made so far in this step
Count(calls, name) == Cardinality({k \in 1..Len(calls) : calls[k] = name})

\* does the call fail by injection: the fault names the call, "read2" the
\* second read of the step
Injected(calls, fault, name) ==
    \/ fault.call = name
    \/ name = "read" /\ fault.call = "read2" /\ Count(calls, "read") = 1

\* the lowest handle number not in use
FreeHandle(H) == CHOOSE h \in 0..Cardinality(DOMAIN H) : h \notin DOMAIN H

\* stat(path, &st): [ret, errno, size]
FS_stat(F, calls, fault, path) ==
    IF Injected(calls, fault, "stat") THEN [ret |-> -1, errno |-> fault.errno, size |-> 0]
    ELSE IF NoFile(F, path) THEN [ret |-> -1, errno |-> ENOENT, size |-> 0]
    ELSE [ret |-> 0, errno |-> 0, size |-> Len(F[path])]

\* open(path, flags): [ret, errno, files, handles]
FS_open(F, H, calls, fault, path, creat) ==
    IF Injected(calls, fault, "open")
    THEN [ret |-> -1, errno |-> fault.errno, files |-> F, handles |-> H]
    ELSE IF ~creat /\ NoFile(F, path)
    THEN [ret |-> -1, errno |-> ENOENT, files |-> F, handles |-> H]
    ELSE LET h == FreeHandle(H)
         IN [ret |-> h, errno |-> 0,
             files |-> IF creat THEN (path :> <<>>) @@ F ELSE F,
             handles |-> (h :> [path |-> path, pos |-> 0]) @@ H]

\* close(fd): the handles left
FS_close(H, h) == [k \in DOMAIN H \ {h} |-> H[k]]

\* lseek(fd, offset, SEEK_SET): [ret, errno, handles]
FS_lseek(H, calls, fault, h, offset) ==
    IF Injected(calls, fault, "lseek") \/ h \notin DOMAIN H
    THEN [ret |-> -1, errno |-> fault.errno, handles |-> H]
    ELSE [ret |-> offset, errno |-> 0, handles |-> [H EXCEPT ![h].pos = offset]]

\* read(fd, buf, n): [ret, errno, bytes, handles]
FS_read(F, H, calls, fault, h, n) ==
    IF Injected(calls, fault, "read") \/ h \notin DOMAIN H
    THEN [ret |-> -1, errno |-> fault.errno, bytes |-> <<>>, handles |-> H]
    ELSE LET content == F[H[h].path]
             pos == H[h].pos
             got == IF pos >= Len(content) THEN 0 ELSE Min(n, Len(content) - pos)
         IN [ret |-> got, errno |-> 0,
             bytes |-> SubSeq(content, pos + 1, pos + got),
             handles |-> [H EXCEPT ![h].pos = pos + got]]

\* write(fd, buf, n): [ret, errno, files, handles]
FS_write(F, H, calls, fault, h, bytes) ==
    IF Injected(calls, fault, "write") \/ h \notin DOMAIN H
    THEN [ret |-> -1, errno |-> fault.errno, files |-> F, handles |-> H]
    ELSE LET content == F[H[h].path]
             pos == H[h].pos
             n == Len(bytes)
             len == IF pos + n > Len(content) THEN pos + n ELSE Len(content)
             new == [k \in 1..len |->
                       IF k > pos /\ k <= pos + n THEN bytes[k - pos]
                       ELSE IF k <= Len(content) THEN content[k] ELSE 0]
         IN [ret |-> n, errno |-> 0,
             files |-> [F EXCEPT ![H[h].path] = new],
             handles |-> [H EXCEPT ![h].pos = pos + n]]

\* mkdir, unlink, rename, crc32 and opendir: the adapter's answer is the
\* environment's; they leave the files' contents alone
FS_other(calls, fault, name) ==
    IF Injected(calls, fault, name) THEN [ret |-> -1, errno |-> fault.errno]
    ELSE [ret |-> 0, errno |-> 0]

\* checksum returned by crc32(path, checksum)
FS_crc32_value == 305419896

\* readdir order of the one directory "/": name, d_type, whether stat()
\* succeeds, st_size
DirEntries ==
    << [name |-> <<97>>, d_type |-> "DT_REG", stat_ok |-> TRUE, size |-> 3],
       [name |-> <<100>>, d_type |-> "DT_DIR", stat_ok |-> TRUE, size |-> 0],
       [name |-> <<115>>, d_type |-> "DT_CHR", stat_ok |-> TRUE, size |-> 0],
       [name |-> <<103>>, d_type |-> "DT_REG", stat_ok |-> FALSE, size |-> 0],
       [name |-> <<98, 98>>, d_type |-> "DT_LNK", stat_ok |-> TRUE, size |-> 12] >>

\* a name of n bytes c
Name(n, c) == [k \in 1..n |-> c]

\* "/d", "/f" and "/l": three more directories
PathD == <<47, 100>>
PathF == <<47, 102>>
PathL == <<47, 108>>

\* "/d": more entries than one reply holds, two of them not listable
PagedDir ==
    << [name |-> Name(100, 97), d_type |-> "DT_REG", stat_ok |-> TRUE, size |-> 3],
       [name |-> Name(3, 115), d_type |-> "DT_CHR", stat_ok |-> TRUE, size |-> 0],
       [name |-> Name(100, 98), d_type |-> "DT_DIR", stat_ok |-> TRUE, size |-> 0],
       [name |-> Name(2, 103), d_type |-> "DT_REG", stat_ok |-> FALSE, size |-> 0],
       [name |-> Name(100, 99), d_type |-> "DT_LNK", stat_ok |-> TRUE, size |-> 12],
       [name |-> <<122>>, d_type |-> "DT_REG", stat_ok |-> TRUE, size |-> 0] >>

\* "/f": a directory whose record fills a reply to its last two bytes,
\* then two files
FullDir ==
    << [name |-> Name(DataSize - 4, 97), d_type |-> "DT_DIR", stat_ok |-> TRUE,
        size |-> 0],
       [name |-> <<98>>, d_type |-> "DT_REG", stat_ok |-> TRUE, size |-> 1],
       [name |-> <<99>>, d_type |-> "DT_REG", stat_ok |-> TRUE, size |-> 2] >>

\* "/l": a file whose record is longer than a reply's data, between two
\* files
LongDir ==
    << [name |-> <<97>>, d_type |-> "DT_REG", stat_ok |-> TRUE, size |-> 3],
       [name |-> Name(DataSize - 3, 98), d_type |-> "DT_REG", stat_ok |-> TRUE,
        size |-> 3],
       [name |-> <<99>>, d_type |-> "DT_REG", stat_ok |-> TRUE, size |-> 4] >>

\* opendir(path): the entries readdir will return, or NullPtr
FS_opendir(calls, fault, path) ==
    IF Injected(calls, fault, "opendir") THEN [dir |-> NullPtr, errno |-> fault.errno]
    ELSE IF path = PathRoot THEN [dir |-> DirEntries, errno |-> 0]
    ELSE IF path = PathD THEN [dir |-> PagedDir, errno |-> 0]
    ELSE IF path = PathF THEN [dir |-> FullDir, errno |-> 0]
    ELSE IF path = PathL THEN [dir |-> LongDir, errno |-> 0]
    ELSE [dir |-> NullPtr, errno |-> ENOENT]

-----------------------------------------------------------------------------
(* Requests, replies and the reply pump.  The worker's state is carried    *)
(* through one request as a record W: fd, mode, cs (current_session), lsm  *)
(* (last_send_ms), mask, reply, files, handles, errno, and what the step   *)
(* did: tx (what was transmitted), calls (the filesystem calls made).      *)

\* pending_ftp reply = {}; reply.session = -1 (a uint8_t)
InitReply ==
    [chan |-> 0, sysid |-> 0, compid |-> 0, session |-> 255, seq_number |-> 0,
     opcode |-> OpNone, req_opcode |-> OpNone, size |-> 0,
     burst_complete |-> FALSE, offset |-> 0, data |-> <<>>]

\* the payload send_ftp_reply() encodes and hands to the transport
send_ftp_reply(r) ==
    [kind |-> "ftp", chan |-> r.chan, sysid |-> r.sysid, compid |-> r.compid,
     seq_number |-> r.seq_number % U16, session |-> r.session,
     opcode |-> r.opcode, size |-> r.size, req_opcode |-> r.req_opcode,
     burst_complete |-> IF r.burst_complete THEN 1 ELSE 0,
     offset |-> r.offset, data |-> Trim(r.data)]

\* bit c of a mask
Bit(mask, c) == (mask \div (2 ^ c)) % 2 = 1

\* ftp_push_replies(reply) that leaves the channel's banner bit set
ftp_push_replies_keeps_bit(W, te, wchan) ==
    LET banner == Bit(W.mask, W.reply.chan)
    IN [W EXCEPT
          !.lsm = IF W.reply.req_opcode = OpTerminateSession THEN 0 ELSE te,
          !.tx = W.tx \o <<send_ftp_reply(W.reply)>> \o
                 (IF banner THEN <<[kind |-> "banner", chan |-> wchan]>> ELSE <<>>)]

\* ftp_push_replies(reply), entered at time te; the banner goes out on the
\* channel of the object the worker runs on
ftp_push_replies(W, te, wchan) ==
    LET banner == Bit(W.mask, W.reply.chan)
    IN [W EXCEPT
          !.lsm = IF W.reply.req_opcode = OpTerminateSession THEN 0 ELSE te,
          !.tx = W.tx \o <<send_ftp_reply(W.reply)>> \o
                 (IF banner THEN <<[kind |-> "banner", chan |-> wchan]>> ELSE <<>>),
          !.mask = IF banner THEN W.mask - 2 ^ W.reply.chan ELSE W.mask]

\* ftp_check_name_len(request)
ftp_check_name_len(request) ==
    LET file_name_len == strnlen(request.data, 0, DataSize)
    IN IF request.size = 0 THEN FALSE
       ELSE IF file_name_len = request.size THEN TRUE
       ELSE request.size - file_name_len = 1 /\ Byte(request.data, DataSize - 1) = 0

\* ftp_error(response, error) that also gives up the session
ftp_error_ends_session(W, error) ==
    LET r1 == [W.reply EXCEPT !.opcode = OpNack,
                              !.data = SetByte(W.reply.data, 0, error),
                              !.size = 1]
        r2 == IF error # ErrFailErrno THEN r1
              ELSE IF W.errno = EEXIST
                   THEN [r1 EXCEPT !.data = SetByte(r1.data, 0, ErrFileExists)]
              ELSE IF W.errno = ENOENT
                   THEN [r1 EXCEPT !.data = SetByte(r1.data, 0, ErrFileNotFound)]
              ELSE [r1 EXCEPT !.data = SetByte(r1.data, 1, W.errno % 256), !.size = 2]
    IN [W EXCEPT !.reply = r2, !.cs = NoSession]

\* ftp_error(response, error), errno being W.errno
ftp_error(W, error) ==
    LET r1 == [W.reply EXCEPT !.opcode = OpNack,
                              !.data = SetByte(W.reply.data, 0, error),
                              !.size = 1]
        r2 == IF error # ErrFailErrno THEN r1
              ELSE IF W.errno = EEXIST
                   THEN [r1 EXCEPT !.data = SetByte(r1.data, 0, ErrFileExists)]
              ELSE IF W.errno = ENOENT
                   THEN [r1 EXCEPT !.data = SetByte(r1.data, 0, ErrFileNotFound)]
              ELSE [r1 EXCEPT !.data = SetByte(r1.data, 1, W.errno % 256), !.size = 2]
    IN [W EXCEPT !.reply = r2]

\* reply.opcode = FTP_OP::Ack
Ack(W) == [W EXCEPT !.reply.opcode = OpAck]

\* request.data[sizeof(request.data) - 1] = 0, then the data read as a path
PathArg(request) == CStr(request.data, 0, DataSize - 1)

\* one more filesystem call made
Called(W, name) == [W EXCEPT !.calls = Append(W.calls, name)]

\* AP::FS().close(ftp.fd); ftp.fd = -1
CloseFd(W) ==
    [Called(W, "close") EXCEPT !.handles = FS_close(W.handles, W.fd), !.fd = NoFd]

-----------------------------------------------------------------------------
(* The opcode handlers of ftp_worker's switch *)

\* TerminateSession that forgets "ftp.current_session = -1"
TerminateSession_keeps_session(W) ==
    Ack(IF W.fd # NoFd THEN CloseFd(W) ELSE W)

\* case TerminateSession / ResetSessions
TerminateSession(W) ==
    LET W1 == IF W.fd # NoFd THEN CloseFd(W) ELSE W
    IN Ack([W1 EXCEPT !.cs = NoSession])

\* OpenFileRO's idle reclaim without the close: ftp.fd = -1 only
OpenReclaim_no_close(W, now) ==
    IF W.fd # NoFd /\ U32Sub(now, W.lsm) > FTP_SESSION_TIMEOUT
    THEN [W EXCEPT !.fd = NoFd, !.cs = NoSession]
    ELSE W

\* OpenFileRO's idle reclaim taken at the timeout already
OpenReclaim_at_timeout(W, now) ==
    IF W.fd # NoFd /\ U32Sub(now, W.lsm) >= FTP_SESSION_TIMEOUT
    THEN [CloseFd(W) EXCEPT !.cs = NoSession]
    ELSE W

\* OpenFileRO's idle reclaim: fd open and no send for more than the timeout
OpenReclaim(W, now) ==
    IF W.fd # NoFd /\ U32Sub(now, W.lsm) > FTP_SESSION_TIMEOUT
    THEN [CloseFd(W) EXCEPT !.cs = NoSession]
    ELSE W

\* case OpenFileRO
OpenFileRO(W0, request, now, fault) ==
    LET W == OpenReclaim(W0, now)
    IN IF W.fd # NoFd THEN ftp_error(W, ErrFail)
       ELSE IF ~ftp_check_name_len(request) THEN ftp_error(W, ErrInvalidDataSize)
       ELSE
         LET path == PathArg(request)
             st == FS_stat(W.files, W.calls, fault, path)
             W1 == Called(W, "stat")
         IN IF st.ret # 0 THEN ftp_error([W1 EXCEPT !.errno = st.errno], ErrFailErrno)
            ELSE
              LET o == FS_open(W1.files, W1.handles, W1.calls, fault, path, FALSE)
                  W2 == [Called(W1, "open") EXCEPT !.fd = o.ret, !.files = o.files,
                                                   !.handles = o.handles]
              IN IF o.ret = -1
                 THEN ftp_error([W2 EXCEPT !.errno = o.errno], ErrFailErrno)
                 ELSE [W2 EXCEPT
                         !.mode = ModeRead,
                         !.cs = request.session,
                         !.reply.opcode = OpAck,
                         !.reply.size = 4,
                         !.reply.data = put_le32(st.size),
                         !.mask = IF IsParamPck(request.data)
                                     /\ ~Bit(W2.mask, W2.reply.chan)
                                  THEN W2.mask + 2 ^ W2.reply.chan
                                  ELSE W2.mask]

\* case OpenFileWO / CreateFile without "only allow one file to be open per
\* session"
OpenFileWO_no_guard(W, request, fault) ==
    IF ~ftp_check_name_len(request) THEN ftp_error(W, ErrInvalidDataSize)
    ELSE
      LET o == FS_open(W.files, W.handles, W.calls, fault, PathArg(request),
                       request.opcode = OpCreateFile)
          W1 == [Called(W, "open") EXCEPT !.fd = o.ret, !.files = o.files,
                                          !.handles = o.handles]
      IN IF o.ret = -1 THEN ftp_error([W1 EXCEPT !.errno = o.errno], ErrFailErrno)
         ELSE [W1 EXCEPT !.mode = ModeWrite, !.cs = request.session,
                         !.reply.opcode = OpAck]

\* case OpenFileWO / CreateFile
OpenFileWO(W, request, fault) ==
    IF W.fd # NoFd THEN ftp_error(W, ErrFail)
    ELSE IF ~ftp_check_name_len(request) THEN ftp_error(W, ErrInvalidDataSize)
    ELSE
      LET o == FS_open(W.files, W.handles, W.calls, fault, PathArg(request),
                       request.opcode = OpCreateFile)
          W1 == [Called(W, "open") EXCEPT !.fd = o.ret, !.files = o.files,
                                          !.handles = o.handles]
      IN IF o.ret = -1 THEN ftp_error([W1 EXCEPT !.errno = o.errno], ErrFailErrno)
         ELSE [W1 EXCEPT !.mode = ModeWrite, !.cs = request.session,
                         !.reply.opcode = OpAck]

\* ReadFile that reads on without seeking to request.offset
ReadFile_no_seek(W, request, fault) ==
    IF W.fd = NoFd THEN ftp_error(W, ErrFileNotFound)
    ELSE IF W.mode # ModeRead THEN ftp_error(W, ErrFail)
    ELSE
      LET r == FS_read(W.files, W.handles, W.calls, fault, W.fd,
                       Min(DataSize, request.size))
          W2 == [Called(W, "read") EXCEPT !.handles = r.handles,
                                          !.reply.data = Trim(r.bytes)]
      IN IF r.ret = -1 THEN ftp_error([W2 EXCEPT !.errno = r.errno], ErrFailErrno)
         ELSE IF r.ret = 0 THEN ftp_error(W2, ErrEndOfFile)
         ELSE [W2 EXCEPT !.reply.opcode = OpAck,
                         !.reply.offset = request.offset,
                         !.reply.size = r.ret % 256]

\* case ReadFile
ReadFile(W, request, fault) ==
    IF W.fd = NoFd THEN ftp_error(W, ErrFileNotFound)
    ELSE IF W.mode # ModeRead THEN ftp_error(W, ErrFail)
    ELSE
      LET s == FS_lseek(W.handles, W.calls, fault, W.fd, request.offset)
          W1 == [Called(W, "lseek") EXCEPT !.handles = s.handles]
      IN IF s.ret = -1 THEN ftp_error([W1 EXCEPT !.errno = s.errno], ErrFailErrno)
         ELSE
           LET r == FS_read(W1.files, W1.handles, W1.calls, fault, W1.fd,
                            Min(DataSize, request.size))
               W2 == [Called(W1, "read") EXCEPT !.handles = r.handles,
                                                !.reply.data = Trim(r.bytes)]
           IN IF r.ret = -1 THEN ftp_error([W2 EXCEPT !.errno = r.errno], ErrFailErrno)
              ELSE IF r.ret = 0 THEN ftp_error(W2, ErrEndOfFile)
              ELSE [W2 EXCEPT !.reply.opcode = OpAck,
                              !.reply.offset = request.offset,
                              !.reply.size = r.ret % 256]

\* case WriteFile without "must have the file in write mode"
WriteFile_any_mode(W, request, fault) ==
    IF W.fd = NoFd THEN ftp_error(W, ErrFileNotFound)
    ELSE
      LET s == FS_lseek(W.handles, W.calls, fault, W.fd, request.offset)
          W1 == [Called(W, "lseek") EXCEPT !.handles = s.handles]
      IN IF s.ret = -1 THEN ftp_error([W1 EXCEPT !.errno = s.errno], ErrFailErrno)
         ELSE
           LET w == FS_write(W1.files, W1.handles, W1.calls, fault, W1.fd,
                             [k \in 1..request.size |-> Byte(request.data, k - 1)])
               W2 == [Called(W1, "write") EXCEPT !.handles = w.handles,
                                                 !.files = w.files]
           IN IF w.ret = -1 THEN ftp_error([W2 EXCEPT !.errno = w.errno], ErrFailErrno)
              ELSE [W2 EXCEPT !.reply.opcode = OpAck, !.reply.offset = request.offset]

\* case WriteFile
WriteFile(W, request, fault) ==
    IF W.fd = NoFd THEN ftp_error(W, ErrFileNotFound)
    ELSE IF W.mode # ModeWrite THEN ftp_error(W, ErrFail)
    ELSE
      LET s == FS_lseek(W.handles, W.calls, fault, W.fd, request.offset)
          W1 == [Called(W, "lseek") EXCEPT !.handles = s.handles]
      IN IF s.ret = -1 THEN ftp_error([W1 EXCEPT !.errno = s.errno], ErrFailErrno)
         ELSE
           LET w == FS_write(W1.files, W1.handles, W1.calls, fault, W1.fd,
                             [k \in 1..request.size |-> Byte(request.data, k - 1)])
               W2 == [Called(W1, "write") EXCEPT !.handles = w.handles,
                                                 !.files = w.files]
           IN IF w.ret = -1 THEN ftp_error([W2 EXCEPT !.errno = w.errno], ErrFailErrno)
              ELSE [W2 EXCEPT !.reply.opcode = OpAck, !.reply.offset = request.offset]

\* case CreateDirectory, RemoveDirectory / RemoveFile: a path, one call
PathCall(W, request, fault, name) ==
    IF ~ftp_check_name_len(request) THEN ftp_error(W, ErrInvalidDataSize)
    ELSE
      LET c == FS_other(W.calls, fault, name)
          W1 == Called(W, name)
      IN IF c.ret = -1 THEN ftp_error([W1 EXCEPT !.errno = c.errno], ErrFailErrno)
         ELSE Ack(W1)

\* case CalcFileCRC32
CalcFileCRC32(W, request, fault) ==
    IF ~ftp_check_name_len(request) THEN ftp_error(W, ErrInvalidDataSize)
    ELSE
      LET c == FS_other(W.calls, fault, "crc32")
          W1 == Called(W, "crc32")
      IN IF c.ret = -1 THEN ftp_error([W1 EXCEPT !.errno = c.errno], ErrFailErrno)
         ELSE [W1 EXCEPT !.reply.data = put_le32(FS_crc32_value),
                         !.reply.size = 4, !.reply.opcode = OpAck]

\* case Rename
Rename(W, request, fault) ==
    LET len1 == strnlen(request.data, 0, DataSize - 2)
        len2 == strnlen(request.data, len1 + 1, DataSize - (len1 + 1))
        is_req_size_consider_tnull ==
            request.size - (len1 + len2) = 2 /\ Byte(request.data, DataSize - 1) = 0
    IN IF Byte(request.data, len1) # 0
          \/ (len1 + len2 + 1 # request.size /\ ~is_req_size_consider_tnull)
          \/ request.size = 0
       THEN ftp_error(W, ErrInvalidDataSize)
       ELSE
         LET c == FS_other(W.calls, fault, "rename")
             W1 == Called(W, "rename")
         IN IF c.ret # 0 THEN ftp_error([W1 EXCEPT !.errno = c.errno], ErrFailErrno)
            ELSE Ack(W1)

\* iteration i of the burst read loop with offsets that advance by the size
\* of the data field
BurstStep_full_chunks(W, request, max_read, i, fault, te, wchan) ==
    LET r == FS_read(W.files, W.handles, W.calls, fault, W.fd, Min(DataSize, max_read))
        W1 == [Called(W, "read") EXCEPT !.handles = r.handles]
    IN IF r.ret = -1 THEN ftp_error([W1 EXCEPT !.errno = r.errno], ErrFailErrno)
       ELSE
         LET W2 == [W1 EXCEPT !.reply.data = Trim(r.bytes)]
         IN IF r.ret = 0 THEN ftp_error(W2, ErrEndOfFile)
            ELSE
              LET W3 == [W2 EXCEPT
                           !.reply.opcode = OpAck,
                           !.reply.offset = request.offset + i * DataSize,
                           !.reply.burst_complete =
                               (r.ret < max_read \/ i = transfer_size - 1),
                           !.reply.size = r.ret % 256]
                  W4 == ftp_push_replies(W3, te, wchan)
              IN [W4 EXCEPT
                    !.reply.offset = IF r.ret < max_read
                                     THEN W4.reply.offset + r.ret
                                     ELSE W4.reply.offset,
                    !.reply.seq_number = (W4.reply.seq_number + 1) % U16]

\* iteration i of the burst read loop with burst_complete set for a short
\* read only
BurstStep_short_only(W, request, max_read, i, fault, te, wchan) ==
    LET r == FS_read(W.files, W.handles, W.calls, fault, W.fd, Min(DataSize, max_read))
        W1 == [Called(W, "read") EXCEPT !.handles = r.handles]
    IN IF r.ret = -1 THEN ftp_error([W1 EXCEPT !.errno = r.errno], ErrFailErrno)
       ELSE
         LET W2 == [W1 EXCEPT !.reply.data = Trim(r.bytes)]
         IN IF r.ret = 0 THEN ftp_error(W2, ErrEndOfFile)
            ELSE
              LET W3 == [W2 EXCEPT
                           !.reply.opcode = OpAck,
                           !.reply.offset = request.offset + i * max_read,
                           !.reply.burst_complete = (r.ret < max_read),
                           !.reply.size = r.ret % 256]
                  W4 == ftp_push_replies(W3, te, wchan)
              IN [W4 EXCEPT
                    !.reply.offset = IF r.ret < max_read
                                     THEN W4.reply.offset + r.ret
                                     ELSE W4.reply.offset,
                    !.reply.seq_number = (W4.reply.seq_number + 1) % U16]

\* iteration i of the burst read loop; a break leaves reply.opcode = Nack
BurstStep(W, request, max_read, i, fault, te, wchan) ==
    LET r == FS_read(W.files, W.handles, W.calls, fault, W.fd, Min(DataSize, max_read))
        W1 == [Called(W, "read") EXCEPT !.handles = r.handles]
    IN IF r.ret = -1 THEN ftp_error([W1 EXCEPT !.errno = r.errno], ErrFailErrno)
       ELSE
         LET W2 == [W1 EXCEPT !.reply.data = Trim(r.bytes)]
         IN IF r.ret = 0 THEN ftp_error(W2, ErrEndOfFile)
            ELSE
              LET W3 == [W2 EXCEPT
                           !.reply.opcode = OpAck,
                           !.reply.offset = request.offset + i * max_read,
                           !.reply.burst_complete =
                               (r.ret < max_read \/ i = transfer_size - 1),
                           !.reply.size = r.ret % 256]
                  W4 == ftp_push_replies(W3, te, wchan)
              IN [W4 EXCEPT
                    !.reply.offset = IF r.ret < max_read
                                     THEN W4.reply.offset + r.ret
                                     ELSE W4.reply.offset,
                    !.reply.seq_number = (W4.reply.seq_number + 1) % U16]

\* the iterations lo .. hi - 1 of the burst read loop, one after the other
\* until one of them breaks; the range is taken in two halves to keep the
\* depth of the evaluation small
RECURSIVE BurstLoop(_, _, _, _, _, _, _, _)
BurstLoop(W, request, max_read, lo, hi, fault, te, wchan) ==
    IF lo >= hi \/ W.reply.opcode = OpNack THEN W
    ELSE IF hi = lo + 1 THEN BurstStep(W, request, max_read, lo, fault, te, wchan)
    ELSE BurstLoop(BurstLoop(W, request, max_read, lo, (lo + hi) \div 2,
                             fault, te, wchan),
                   request, max_read, (lo + hi) \div 2, hi, fault, te, wchan)

\* case BurstReadFile without skip_push_reply
BurstReadFile_no_skip(W, request, fault, te, wchan) ==
    LET max_read == IF request.size = 0 THEN DataSize ELSE request.size
    IN IF W.fd = NoFd THEN ftp_error(W, ErrFileNotFound)
       ELSE IF W.mode # ModeRead THEN ftp_error(W, ErrFail)
       ELSE
         LET s == FS_lseek(W.handles, W.calls, fault, W.fd, request.offset)
             W1 == [Called(W, "lseek") EXCEPT !.handles = s.handles]
         IN IF s.ret = -1 THEN ftp_error([W1 EXCEPT !.errno = s.errno], ErrFailErrno)
            ELSE BurstLoop(W1, request, max_read, 0, transfer_size, fault, te, wchan)

\* case BurstReadFile with skip_push_reply set after every burst, also one
\* that ended in a Nack
BurstReadFile_skips_nack(W, request, fault, te, wchan) ==
    LET max_read == IF request.size = 0 THEN DataSize ELSE request.size
    IN IF W.fd = NoFd THEN ftp_error(W, ErrFileNotFound)
       ELSE IF W.mode # ModeRead THEN ftp_error(W, ErrFail)
       ELSE
         LET s == FS_lseek(W.handles, W.calls, fault, W.fd, request.offset)
             W1 == [Called(W, "lseek") EXCEPT !.handles = s.handles]
         IN IF s.ret = -1 THEN ftp_error([W1 EXCEPT !.errno = s.errno], ErrFailErrno)
            ELSE
              LET W2 == BurstLoop(W1, request, max_read, 0, transfer_size, fault, te, wchan)
              IN [W2 EXCEPT !.skip = TRUE]

\* case BurstReadFile; W.skip is skip_push_reply
BurstReadFile(W, request, fault, te, wchan) ==
    LET max_read == IF request.size = 0 THEN DataSize ELSE request.size
    IN IF W.fd = NoFd THEN ftp_error(W, ErrFileNotFound)
       ELSE IF W.mode # ModeRead THEN ftp_error(W, ErrFail)
       ELSE
         LET s == FS_lseek(W.handles, W.calls, fault, W.fd, request.offset)
             W1 == [Called(W, "lseek") EXCEPT !.handles = s.handles]
         IN IF s.ret = -1 THEN ftp_error([W1 EXCEPT !.errno = s.errno], ErrFailErrno)
            ELSE
              LET W2 == BurstLoop(W1, request, max_read, 0, transfer_size, fault, te, wchan)
              IN [W2 EXCEPT !.skip = (W2.reply.opcode # OpNack)]

-----------------------------------------------------------------------------
(* Directory listing *)

\* build option: struct dirent has d_type
AP_FILESYSTEM_HAVE_DIRENT_DTYPE == TRUE

\* "%u" of n
RECURSIVE Digits(_)
Digits(n) == IF n < 10 THEN <<48 + n>> ELSE Digits(n \div 10) \o <<48 + (n % 10)>>

\* the buffer after snprintf(data + index, space, ...) of the bytes text:
\* at most space - 1 bytes and a terminating NUL
snprintf(data, index, space, text) ==
    LET n == Min(Len(text), space - 1)
        top == IF index + n + 1 > Len(data) THEN index + n + 1 ELSE Len(data)
    IN Trim([k \in 1..top |->
               IF k <= index THEN Byte(data, k - 1)
               ELSE IF k <= index + n THEN text[k - index]
               ELSE IF k = index + n + 1 THEN 0
               ELSE Byte(data, k - 1)])

\* gen_dir_entry(data + index, space, path, entry): [ret, data]
gen_dir_entry(data, index, space, entry) ==
    LET is_file == IF AP_FILESYSTEM_HAVE_DIRENT_DTYPE
                   THEN entry.d_type \in {"DT_REG", "DT_LNK"}
                   ELSE TRUE
        cleared == SetByte(data, index, 0)
        dtext == <<68>> \o entry.name \o <<0>>
        ftext == <<70>> \o entry.name \o <<9>> \o Digits(entry.size) \o <<0>>
    IN IF space < 3 THEN [ret |-> -1, data |-> data]
       ELSE IF AP_FILESYSTEM_HAVE_DIRENT_DTYPE /\ ~is_file /\ entry.d_type # "DT_DIR"
       THEN [ret |-> -1, data |-> cleared]
       ELSE IF is_file
       THEN IF ~entry.stat_ok THEN [ret |-> -1, data |-> cleared]
            ELSE IF ~AP_FILESYSTEM_HAVE_DIRENT_DTYPE /\ entry.d_type = "DT_DIR"
            THEN [ret |-> Len(dtext), data |-> snprintf(cleared, index, space, dtext)]
            ELSE [ret |-> Len(ftext), data |-> snprintf(cleared, index, space, ftext)]
       ELSE [ret |-> Len(dtext), data |-> snprintf(cleared, index, space, dtext)]

\* "burn the entries we don't care about": [eof, next, data], next being the
\* number of entries read from dir
RECURSIVE SkipEntries(_, _, _, _)
SkipEntries(dir, next, offset, data) ==
    IF offset = 0 THEN [eof |-> FALSE, next |-> next, data |-> data]
    ELSE IF next >= Len(dir) THEN [eof |-> TRUE, next |-> next, data |-> data]
    ELSE
      LET g == gen_dir_entry(data, 0, DataSize, dir[next + 1])
      IN IF g.ret < 0 \/ g.ret > DataSize
         THEN SkipEntries(dir, next + 1, offset, g.data)
         ELSE SkipEntries(dir, next + 1, offset - 1, g.data)

\* "start packing in entries that fit": [index, data]
RECURSIVE PackEntries(_, _, _, _)
PackEntries(dir, next, index, data) ==
    IF next >= Len(dir) THEN [index |-> index, data |-> data]
    ELSE
      LET g == gen_dir_entry(data, index, DataSize - index, dir[next + 1])
      IN IF g.ret < 0 THEN PackEntries(dir, next + 1, index, g.data)
         ELSE IF g.ret + index >= DataSize THEN [index |-> index, data |-> g.data]
         ELSE PackEntries(dir, next + 1, (index + g.ret + 1) % 256, g.data)

\* ftp_list_dir(request, response)
ftp_list_dir(W0, request, fault) ==
    LET W == [W0 EXCEPT !.reply.offset = request.offset]
    IN IF ~ftp_check_name_len(request) THEN ftp_error(W, ErrInvalidDataSize)
       ELSE
         LET raw == PathArg(request)
             dir_len == Len(raw)
             path == IF dir_len > 1 /\ raw[dir_len] = 47
                     THEN SubSeq(raw, 1, dir_len - 1) ELSE raw
             o == FS_opendir(W.calls, fault, path)
             W1 == Called(W, "opendir")
         IN IF o.dir = NullPtr
            THEN ftp_error([W1 EXCEPT !.errno = o.errno], ErrFailErrno)
            ELSE
              LET sk == SkipEntries(o.dir, 0, request.offset, W1.reply.data)
                  W2 == [Called(W1, "closedir") EXCEPT !.reply.data = sk.data]
              IN IF sk.eof THEN ftp_error(W2, ErrEndOfFile)
                 ELSE
                   LET pk == PackEntries(o.dir, sk.next, 0, sk.data)
                   IN IF pk.index = 0
                      THEN ftp_error([W2 EXCEPT !.reply.data = pk.data], ErrEndOfFile)
                      ELSE [W2 EXCEPT
                              !.reply.data = Trim(SubSeq(pk.data, 1, Min(pk.index, Len(pk.data)))),
                              !.reply.opcode = OpAck,
                              !.reply.size = pk.index]

-----------------------------------------------------------------------------
(* ftp_worker: one turn of its while (true) loop on a popped request *)

\* "if it's a rerequest and we still have the last response"
IsRerequest(request, cached) ==
    /\ request.sysid = cached.sysid
    /\ request.compid = cached.compid
    /\ request.session = cached.session
    /\ request.seq_number + 1 = cached.seq_number

\* a response set up with the request's own sequence number
SetupReply_same_seq(request) ==
    [InitReply EXCEPT !.req_opcode = request.opcode,
                      !.session = request.session,
                      !.seq_number = request.seq_number,
                      !.chan = request.chan,
                      !.sysid = request.sysid,
                      !.compid = request.compid]

\* "setup the response"
SetupReply(request) ==
    [InitReply EXCEPT !.req_opcode = request.opcode,
                      !.session = request.session,
                      !.seq_number = (request.seq_number + 1) % U16,
                      !.chan = request.chan,
                      !.sysid = request.sysid,
                      !.compid = request.compid]

\* the early ack given to ResetSessions only
ForeignTerminate_reset_only(W, request) ==
    /\ request.session # W.cs
    /\ request.opcode = OpResetSessions

\* "terminating a different session, just ack"
ForeignTerminate(W, request) ==
    /\ request.session # W.cs
    /\ request.opcode \in {OpTerminateSession, OpResetSessions}

\* the rejection with its comparison turned round
WrongSession_turned(W, request, now) ==
    /\ W.fd # NoFd
    /\ request.session # W.cs
    /\ U32Sub(now, W.lsm) > FTP_SESSION_TIMEOUT

\* "if we have an open file and the session isn't right then reject"
WrongSession(W, request, now) ==
    /\ W.fd # NoFd
    /\ request.session # W.cs
    /\ U32Sub(now, W.lsm) < FTP_SESSION_TIMEOUT

\* the force close only after more than the timeout
SessionReclaim_strict(W, request, now) ==
    IF /\ W.fd # NoFd
       /\ request.session # W.cs
       /\ U32Sub(now, W.lsm) > FTP_SESSION_TIMEOUT
    THEN [CloseFd(W) EXCEPT !.cs = NoSession]
    ELSE W

\* "if a new session appears and the old session has been idle for more
\* than the timeout then force close the old session"
SessionReclaim(W, request, now) ==
    IF /\ W.fd # NoFd
       /\ request.session # W.cs
       /\ U32Sub(now, W.lsm) >= FTP_SESSION_TIMEOUT
    THEN [CloseFd(W) EXCEPT !.cs = NoSession]
    ELSE W

\* switch (request.opcode); W.eaten marks the "continue" of Ack and Nack
Dispatch(W, request, now, te, fault, wchan) ==
    CASE request.opcode = OpNone -> Ack(W)
      [] request.opcode \in {OpTerminateSession, OpResetSessions} -> TerminateSession(W)
      [] request.opcode = OpListDirectory -> ftp_list_dir(W, request, fault)
      [] request.opcode = OpOpenFileRO -> OpenFileRO(W, request, now, fault)
      [] request.opcode = OpReadFile -> ReadFile(W, request, fault)
      [] request.opcode \in {OpAck, OpNack} -> [W EXCEPT !.eaten = TRUE]
      [] request.opcode \in {OpOpenFileWO, OpCreateFile} -> OpenFileWO(W, request, fault)
      [] request.opcode = OpWriteFile -> WriteFile(W, request, fault)
      [] request.opcode = OpCreateDirectory -> PathCall(W, request, fault, "mkdir")
      [] request.opcode \in {OpRemoveDirectory, OpRemoveFile} ->
             PathCall(W, request, fault, "unlink")
      [] request.opcode = OpCalcFileCRC32 -> CalcFileCRC32(W, request, fault)
      [] request.opcode = OpBurstReadFile -> BurstReadFile(W, request, fault, te, wchan)
      [] request.opcode = OpRename -> Rename(W, request, fault)
      [] OTHER -> ftp_error(W, ErrFail)

\* the end of the loop's body: "if (!skip_push_reply) ftp_push_replies(reply)",
\* which the "continue" of Ack and Nack does not reach
PushUnlessSkipped(W, te, wchan) ==
    IF W.eaten \/ W.skip THEN W ELSE ftp_push_replies(W, te, wchan)

\* the body of the loop after pop(request): now is millis() read by the
\* worker, te the time the last ftp_push_replies is entered
ftp_worker(W, request, now, te, fault, wchan) ==
    IF IsRerequest(request, W.reply)
    THEN [ftp_push_replies(W, te, wchan) EXCEPT !.fast = TRUE]
    ELSE
      LET W1 == [W EXCEPT !.reply = SetupReply(request)]
      IN IF request.size > DataSize
         THEN ftp_push_replies(ftp_error(W1, ErrInvalidDataSize), te, wchan)
         ELSE IF ForeignTerminate(W1, request)
         THEN ftp_push_replies(Ack(W1), te, wchan)
         ELSE IF WrongSession(W1, request, now)
         THEN ftp_push_replies(ftp_error(W1, ErrInvalidSession), te, wchan)
         ELSE
           PushUnlessSkipped(Dispatch(SessionReclaim(W1, request, now), request,
                                      now, te, fault, wchan), te, wchan)

-----------------------------------------------------------------------------
(* The requests the ground station sends, the faults the filesystem can    *)
(* show and the times the clock takes                                      *)

\* a bound of the model: the messages a flooding ground station sends
MaxFlood == 6
\* the length of the long file: one byte more than a burst of single bytes
LongLen == 501

Times == {t \in 0..MaxTime : t <= 1 \/ t >= FTP_SESSION_TIMEOUT}

\* a decoded request on channel 0 from system 1, component 1
Req(session, seq, opcode, size, offset, data) ==
    [chan |-> 0, sysid |-> 1, compid |-> 1, session |-> session,
     seq_number |-> seq, opcode |-> opcode, size |-> size, offset |-> offset,
     data |-> data]

\* "a", NUL, "b": the two paths of a Rename
RenameAB == <<97, 0, 98>>

\* The ground stations of the model.  All but the last wait for the worker
\* to take a request before they send the next one.

\* two sessions competing for the one open file
SessionRequests ==
    {Req(1, 5, OpOpenFileRO, 2, 0, PathA),
     Req(2, 6, OpOpenFileRO, 3, 0, PathA),
     Req(2, 5, OpCreateFile, 2, 0, PathA),
     Req(1, 7, OpOpenFileWO, 2, 0, PathA),
     Req(1, 6, OpTerminateSession, 0, 0, <<>>),
     Req(2, 5, OpTerminateSession, 0, 0, <<>>),
     Req(2, 6, OpTerminateSession, 0, 0, <<>>),
     Req(2, 7, OpReadFile, 2, 0, <<>>)}

\* one session reading and writing
DataRequests ==
    {Req(1, 5, OpOpenFileRO, 2, 0, PathA),
     Req(1, 5, OpCreateFile, 2, 0, PathA),
     Req(1, 65535, OpWriteFile, 2, 1, <<8, 9>>),
     Req(1, 6, OpReadFile, 2, 1, <<>>),
     Req(1, 6, OpReadFile, 239, 3, <<>>),
     Req(1, 7, OpBurstReadFile, 0, 0, <<>>),
     Req(1, 7, OpBurstReadFile, 1, 1, <<>>),
     Req(1, 8, OpResetSessions, 0, 0, <<>>)}

\* sequence numbers, senders and opcodes that are no commands
SeqRequests ==
    {Req(1, 65535, OpOpenFileRO, 16, 0, ParamPck),
     [Req(2, 5, OpOpenFileRO, 16, 0, ParamPck) EXCEPT !.chan = 1],
     Req(1, 5, OpNone, 0, 0, <<>>),
     [Req(1, 5, OpNone, 0, 0, <<>>) EXCEPT !.sysid = 2],
     [Req(1, 5, OpNone, 0, 0, <<>>) EXCEPT !.compid = 2],
     Req(1, 5, OpTerminateSession, 240, 0, <<>>),
     Req(1, 5, OpAck, 0, 0, <<>>),
     Req(2, 5, OpNack, 1, 0, <<1>>),
     Req(1, 5, 99, 0, 0, <<>>)}

\* the commands that take paths
PathRequests ==
    {Req(1, 5, OpListDirectory, 1, 0, PathRoot),
     Req(1, 5, OpListDirectory, 1, 2, PathRoot),
     Req(1, 6, OpListDirectory, 2, 0, PathA),
     Req(1, 5, OpOpenFileRO, 1, 0, PathA),
     Req(1, 6, OpOpenFileRO, 2, 0, PathX),
     Req(1, 7, OpOpenFileRO, 2, 0, PathA),
     Req(1, 5, OpRemoveFile, 2, 0, PathA),
     Req(1, 6, OpCreateDirectory, 2, 0, PathX),
     Req(1, 5, OpRemoveDirectory, 0, 0, PathX),
     Req(1, 5, OpTruncateFile, 0, 0, <<>>),
     Req(1, 5, OpRename, 3, 0, RenameAB),
     Req(1, 6, OpRename, 2, 0, <<97, 98>>),
     Req(1, 5, OpCalcFileCRC32, 2, 0, PathA)}

\* one session reading a file that is longer than one burst, in bursts
BurstRequests ==
    {Req(1, 5, OpOpenFileRO, 2, 0, PathA),
     Req(1, 7, OpBurstReadFile, 1, 0, <<>>),
     Req(1, 7, OpBurstReadFile, 1, 2, <<>>),
     Req(1, 8, OpBurstReadFile, 2, 1, <<>>),
     Req(1, 8, OpBurstReadFile, 0, 0, <<>>)}

\* a ground station that does not wait
FloodRequests ==
    {Req(1, 5, OpNone, 0, 0, <<>>), Req(2, 6, OpTerminateSession, 0, 0, <<>>)}

GcsModes == {"session", "data", "seq", "path", "burst", "flood"}

RequestsOf(m) ==
    CASE m = "session" -> SessionRequests
      [] m = "data" -> DataRequests
      [] m = "seq" -> SeqRequests
      [] m = "path" -> PathRequests
      [] m = "burst" -> BurstRequests
      [] m = "flood" -> FloodRequests

\* the filesystem faults that can show while a request is served
Faults(request) ==
    {NoFault} \cup
    CASE request.opcode = OpOpenFileRO ->
             {[call |-> c, errno |-> EIO] : c \in {"stat", "open"}}
      [] request.opcode \in {OpOpenFileWO, OpCreateFile} ->
             {[call |-> "open", errno |-> e] : e \in {EIO, EEXIST}}
      [] request.opcode = OpReadFile ->
             {[call |-> c, errno |-> EIO] : c \in {"lseek", "read"}}
      [] request.opcode = OpBurstReadFile ->
             {[call |-> c, errno |-> EIO] : c \in {"lseek", "read", "read2"}}
      [] request.opcode = OpWriteFile ->
             {[call |-> c, errno |-> EIO] : c \in {"lseek", "write"}}
      [] request.opcode = OpCreateDirectory ->
             {[call |-> "mkdir", errno |-> e] : e \in {EIO, EEXIST}}
      [] request.opcode \in {OpRemoveFile, OpRemoveDirectory} ->
             {[call |-> "unlink", errno |-> e] : e \in {EIO, ENOENT}}
      [] request.opcode = OpRename -> {[call |-> "rename", errno |-> ENOENT]}
      [] request.opcode = OpCalcFileCRC32 -> {[call |-> "crc32", errno |-> ENOENT]}
      [] request.opcode = OpListDirectory -> {[call |-> "opendir", errno |-> EIO]}
      [] OTHER -> {}

-----------------------------------------------------------------------------
(* State *)

\* never, as a time
Never == 0 - 1

\* nothing observed: what a step of the decoder or of the clock leaves of
\* the last turn of the worker
NoObs ==
    [kind |-> "none", req |-> Req(0, 0, OpNone, 0, 0, <<>>), fast |-> FALSE,
     eaten |-> FALSE, tx |-> <<>>, calls |-> <<>>,
     pre |-> [fd |-> NoFd, mode |-> ModeRead, cs |-> NoSession, lsm |-> 0,
              reply |-> InitReply],
     now |-> 0, fault |-> NoFault, retx |-> FALSE, prev_sent |-> <<>>,
     prev_term |-> NoSession, last_tx |-> Never, owner_tx |-> Never,
     written |-> <<>>]

\* what is remembered of the transmissions so far: the request of the last
\* turn with its last reply if it was answered, the time of the last
\* transmission, the time of the last reply to the session owning the file,
\* the session of the last turn if it dispatched a TerminateSession and
\* acked it, and the last acked write whose file has not changed since
NoHist ==
    [answered |-> <<>>, last_tx |-> Never, owner_tx |-> Never,
     term |-> NoSession, written |-> <<>>]

\* the session state at startup: no file, no session
InitSession ==
    /\ fd = NoFd
    /\ mode = ModeRead
    /\ current_session = NoSession
    /\ last_send_ms = 0
    /\ need_banner_send_mask = 0
    /\ requests = NullPtr
    /\ worker = FALSE
    /\ worker_chan = 0

\* ftp_worker's locals before its loop
InitWorker == reply = InitReply

\* a file of LongLen bytes
LongFile == [k \in 1..LongLen |-> k % 256]

\* the files at startup: "/a", short or long, and "@PARAM/param.pck"
InitFiles ==
    /\ files \in {(PathA :> a) @@ (ParamPck :> <<7, 7>>) : a \in {<<1, 2, 3>>, LongFile}}
    /\ handles = <<>>

\* the ground station that lists no directory page by page
NoList == [path |-> <<>>, got |-> <<>>, seq |-> 0, state |-> "none"]

\* the directories a ground station lists page by page
ListPaths == {PathRoot, PathD, PathF, PathL}

Init ==
    /\ InitSession
    /\ InitWorker
    /\ InitFiles
    /\ ftp_disabled \in BOOLEAN
    /\ clock = 0
    /\ gcs \in {[mode |-> m, budget |-> IF m = "flood" THEN MaxFlood ELSE 0,
                 dropped |-> 0, accepted |-> <<>>, popped |-> <<>>,
                 list |-> NoList] :
                m \in GcsModes}
    /\ files[PathA] = LongFile <=> gcs.mode = "burst"
    /\ obs = NoObs
    /\ hist = NoHist
    /\ txroom = TRUE

\* startup with a ground station that lists one directory page by page:
\* ListDirectory at offset 0, then at the number of entries it has got
ListInit ==
    /\ InitSession
    /\ InitWorker
    /\ InitFiles
    /\ files[PathA] # LongFile
    /\ ftp_disabled \in BOOLEAN
    /\ clock = 0
    /\ gcs \in {[mode |-> "list", budget |-> 0, dropped |-> 0, accepted |-> <<>>,
                 popped |-> <<>>,
                 list |-> [path |-> p, got |-> <<>>, seq |-> 5, state |-> "paging"]] :
                p \in ListPaths}
    /\ obs = NoObs
    /\ hist = NoHist
    /\ txroom = TRUE

-----------------------------------------------------------------------------
(* Actions *)

\* ObjectBuffer<pending_ftp>::push: FALSE when no space is left
ObjectBuffer_push(q, request) ==
    IF Len(q) < QueueSize THEN [ok |-> TRUE, q |-> Append(q, request)]
    ELSE [ok |-> FALSE, q |-> q]

\* ObjectBuffer<pending_ftp>::pop: the oldest object
ObjectBuffer_pop(q) == [object |-> Head(q), q |-> Tail(q)]

\* ftp_init() without "we can simply check if we allocated everything": a
\* new queue on every message
ftp_init_again(chan, alloc_ok, thread_ok) ==
    IF ftp_disabled \/ ~alloc_ok \/ ~thread_ok
    THEN [ok |-> FALSE, requests |-> NullPtr, worker |-> worker,
          worker_chan |-> worker_chan]
    ELSE [ok |-> TRUE, requests |-> <<>>, worker |-> TRUE, worker_chan |-> chan]

\* ftp_init(): [ok, requests, worker, worker_chan]; alloc_ok and thread_ok
\* are the outcomes of NEW_NOTHROW and thread_create
ftp_init(chan, alloc_ok, thread_ok) ==
    IF ftp_disabled
    THEN [ok |-> FALSE, requests |-> NullPtr, worker |-> worker,
          worker_chan |-> worker_chan]
    ELSE IF requests # NullPtr
    THEN [ok |-> TRUE, requests |-> requests, worker |-> worker,
          worker_chan |-> worker_chan]
    ELSE IF ~alloc_ok \/ ~thread_ok
    THEN [ok |-> FALSE, requests |-> NullPtr, worker |-> worker,
          worker_chan |-> worker_chan]
    ELSE [ok |-> TRUE, requests |-> <<>>, worker |-> TRUE, worker_chan |-> chan]

\* the messages the ground station may send now
MaySend ==
    IF gcs.mode = "flood"
    THEN IF gcs.budget > 0 THEN FloodRequests ELSE {}
    ELSE IF requests # NullPtr /\ requests # <<>> THEN {}
    ELSE IF gcs.mode = "list"
    THEN IF gcs.list.state # "paging" THEN {}
         ELSE {Req(1, gcs.list.seq, OpListDirectory, Len(gcs.list.path),
                   Len(gcs.list.got), gcs.list.path)}
    ELSE RequestsOf(gcs.mode)

\* how NEW_NOTHROW and thread_create can end when ftp_init needs them
InitOutcomes ==
    IF requests = NullPtr /\ ~ftp_disabled
    THEN {<<TRUE, TRUE>>, <<FALSE, TRUE>>, <<TRUE, FALSE>>}
    ELSE {<<TRUE, TRUE>>}

\* handle_file_transfer_protocol(msg) that nacks the message it drops: "we
\* could NACK it"
handle_file_transfer_protocol_nack ==
    \E request \in MaySend, o \in InitOutcomes :
        LET i == ftp_init(request.chan, o[1], o[2])
            p == IF i.ok THEN ObjectBuffer_push(i.requests, request)
                 ELSE [ok |-> FALSE, q |-> i.requests]
            nack == send_ftp_reply(ftp_error([reply |-> SetupReply(request),
                                              errno |-> 0], ErrFail).reply)
        IN /\ requests' = p.q
           /\ worker' = i.worker
           /\ worker_chan' = i.worker_chan
           /\ gcs' = IF gcs.mode = "flood"
                     THEN [gcs EXCEPT
                             !.budget = gcs.budget - 1,
                             !.dropped = IF i.ok /\ ~p.ok THEN gcs.dropped + 1
                                         ELSE gcs.dropped,
                             !.accepted = IF p.ok THEN Append(gcs.accepted, request)
                                          ELSE gcs.accepted]
                     ELSE gcs
           /\ obs' = IF i.ok /\ ~p.ok THEN [NoObs EXCEPT !.tx = <<nack>>] ELSE NoObs
           /\ last_send_ms' = IF i.ok /\ ~p.ok THEN clock ELSE last_send_ms
           /\ UNCHANGED <<ftp_disabled, fd, mode, current_session,
                          need_banner_send_mask, reply, files, handles, clock, hist,
                          txroom>>

\* handle_file_transfer_protocol(msg)
handle_file_transfer_protocol ==
    \E request \in MaySend, o \in InitOutcomes :
        LET i == ftp_init(request.chan, o[1], o[2])
            p == IF i.ok THEN ObjectBuffer_push(i.requests, request)
                 ELSE [ok |-> FALSE, q |-> i.requests]
            flood == gcs.mode = "flood"
        IN /\ requests' = p.q
           /\ worker' = i.worker
           /\ worker_chan' = i.worker_chan
           /\ gcs' = IF flood
                     THEN [gcs EXCEPT
                             !.budget = gcs.budget - 1,
                             !.dropped = IF i.ok /\ ~p.ok THEN gcs.dropped + 1
                                         ELSE gcs.dropped,
                             !.accepted = IF p.ok THEN Append(gcs.accepted, request)
                                          ELSE gcs.accepted]
                     ELSE gcs
           /\ obs' = NoObs
           /\ UNCHANGED <<ftp_disabled, fd, mode, current_session, last_send_ms,
                          need_banner_send_mask, reply, files, handles, clock, hist,
                          txroom>>

\* the key a retransmitted request shares with the original
Key(request) ==
    <<request.sysid, request.compid, request.session, request.seq_number>>

\* the FILE_TRANSFER_PROTOCOL payloads among what a step transmitted
FtpSent(tx) == SelectSeq(tx, LAMBDA e : e.kind = "ftp")

\* what the turn on request, from W0 to W, leaves in obs
Observe(W0, W, request, now, fault) ==
    LET retx == hist.answered # <<>> /\ hist.answered.key = Key(request)
    IN [kind |-> "worker", req |-> request, fast |-> W.fast, eaten |-> W.eaten,
        tx |-> W.tx, calls |-> W.calls,
        pre |-> [fd |-> W0.fd, mode |-> W0.mode, cs |-> W0.cs, lsm |-> W0.lsm,
                 reply |-> W0.reply],
        now |-> now, fault |-> fault, retx |-> retx,
        prev_sent |-> IF retx THEN hist.answered.sent ELSE <<>>,
        prev_term |-> hist.term, last_tx |-> hist.last_tx,
        owner_tx |-> hist.owner_tx, written |-> hist.written]

\* what the turn on request, from W0 to W, its replies leaving at te, adds
\* to hist
Remember(W0, W, request, te) ==
    LET sent == FtpSent(W.tx)
    IN [answered |-> IF sent # <<>>
                     THEN [key |-> Key(request), sent |-> sent[Len(sent)]]
                     ELSE <<>>,
        last_tx |-> IF sent # <<>> THEN te ELSE hist.last_tx,
        owner_tx |-> IF W.cs = NoSession THEN Never
                     ELSE IF sent # <<>> /\ request.session = W.cs THEN te
                     ELSE IF W.cs = W0.cs THEN hist.owner_tx
                     ELSE Never,
        term |-> IF /\ request.opcode = OpTerminateSession
                    /\ ~W.fast
                    /\ Len(sent) = 1
                    /\ sent[1].opcode = OpAck
                 THEN request.session ELSE NoSession,
        written |-> IF /\ request.opcode = OpWriteFile
                       /\ ~W.fast
                       /\ Len(sent) = 1
                       /\ sent[1].opcode = OpAck
                    THEN [session |-> request.session,
                          path |-> W0.handles[W0.fd].path,
                          offset |-> request.offset,
                          data |-> [k \in 1..request.size |->
                                      Byte(request.data, k - 1)]]
                    ELSE IF W.files # W0.files THEN <<>>
                    ELSE hist.written]

\* the records of a directory listing in the first size bytes of data:
\* what stands between the NULs, in the order of the bytes
Entries(data, size) ==
    LET starts == {k \in 0..(size - 1) :
                     Byte(data, k) # 0 /\ (k = 0 \/ Byte(data, k - 1) = 0)}
        start(i) == CHOOSE k \in starts :
                        Cardinality({m \in starts : m < k}) = i - 1
        end(k) == CHOOSE j \in k..size :
                      /\ j = size \/ Byte(data, j) = 0
                      /\ \A m \in k..(j - 1) : Byte(data, m) # 0
    IN [i \in 1..Cardinality(starts) |->
          [m \in 1..(end(start(i)) - start(i)) |-> Byte(data, start(i) + m - 1)]]

\* the ground station that lists a directory, after the replies sent: an
\* Ack adds its records and the next request follows the reply's
\* seq_number, a Nack ends the listing
Listed(l, sent) ==
    IF sent = <<>> THEN l
    ELSE
      LET r == sent[Len(sent)]
      IN IF r.opcode = OpAck
         THEN [l EXCEPT !.got = l.got \o Entries(r.data, r.size),
                        !.seq = (r.seq_number + 1) % U16]
         ELSE IF r.opcode = OpNack /\ Byte(r.data, 0) = ErrEndOfFile
         THEN [l EXCEPT !.state = "eof"]
         ELSE [l EXCEPT !.state = "failed"]

\* the worker's state as one turn finds it
WorkerState ==
    [fd |-> fd, mode |-> mode, cs |-> current_session, lsm |-> last_send_ms,
     mask |-> need_banner_send_mask, reply |-> reply, files |-> files,
     handles |-> handles, errno |-> 0, tx |-> <<>>, calls |-> <<>>,
     skip |-> FALSE, eaten |-> FALSE, fast |-> FALSE]

\* the state a turn on request leaves, W0 being the state before it, W the
\* state after it and q the queue without the request
Turned(W0, W, request, q, fault) ==
    /\ requests' = q
    /\ fd' = W.fd
    /\ mode' = W.mode
    /\ current_session' = W.cs
    /\ last_send_ms' = W.lsm
    /\ need_banner_send_mask' = W.mask
    /\ reply' = W.reply
    /\ files' = W.files
    /\ handles' = W.handles
    /\ obs' = Observe(W0, W, request, clock, fault)
    /\ hist' = Remember(W0, W, request, clock)
    /\ gcs' = IF gcs.mode = "flood"
              THEN [gcs EXCEPT !.popped = Append(gcs.popped, request)]
              ELSE IF gcs.mode = "list"
              THEN [gcs EXCEPT !.list = Listed(gcs.list, FtpSent(W.tx))]
              ELSE gcs
    /\ UNCHANGED <<ftp_disabled, worker, worker_chan, clock, txroom>>

\* one turn of ftp_worker's loop: pop a request and serve it.  The turn
\* takes no time of the clock: time passes between turns.  It is made when
\* send_ftp_reply lets it through: "while (!send_ftp_reply(reply)) delay(2)"
WorkerTurn ==
    /\ worker
    /\ requests # NullPtr
    /\ requests # <<>>
    /\ txroom
    /\ \E fault \in Faults(ObjectBuffer_pop(requests).object) :
          Turned(WorkerState,
                 ftp_worker(WorkerState, ObjectBuffer_pop(requests).object,
                            clock, clock, fault, worker_chan),
                 ObjectBuffer_pop(requests).object,
                 ObjectBuffer_pop(requests).q, fault)

\* AP_HAL::millis() advances while the worker waits for a request
Tick ==
    /\ \E t \in Times : t > clock /\ clock' = t
    /\ obs' = NoObs
    /\ UNCHANGED <<ftp_disabled, requests, worker, worker_chan, fd, mode,
                   current_session, last_send_ms, need_banner_send_mask, reply,
                   files, handles, gcs, hist, txroom>>

Next == handle_file_transfer_protocol \/ WorkerTurn \/ Tick

Spec == Init /\ [][Next]_vars

\* the server and a ground station listing a directory page by page
ListSpec == ListInit /\ [][Next]_vars

\* the worker's channel runs out of headroom: last_txbuf_is_greater(33) or
\* HAVE_PAYLOAD_SPACE turn false
ChannelFills ==
    /\ txroom
    /\ txroom' = FALSE
    /\ UNCHANGED <<ftp_disabled, requests, worker, worker_chan, fd, mode,
                   current_session, last_send_ms, need_banner_send_mask, reply,
                   files, handles, clock, gcs, obs, hist>>

\* the worker's channel has headroom again
ChannelDrains ==
    /\ ~txroom
    /\ txroom' = TRUE
    /\ UNCHANGED <<ftp_disabled, requests, worker, worker_chan, fd, mode,
                   current_session, last_send_ms, need_banner_send_mask, reply,
                   files, handles, clock, gcs, obs, hist>>

\* the worker thread can finish a turn: it runs, a request is queued and
\* send_ftp_reply lets the reply through
Ready ==
    /\ worker
    /\ requests # NullPtr
    /\ requests # <<>>
    /\ txroom

\* a turn of the worker: the request at the head of the queue is popped
Popped ==
    /\ Ready
    /\ requests' = Tail(requests)

\* the server on a channel that fills and drains
LiveNext ==
    handle_file_transfer_protocol \/ WorkerTurn \/ Tick \/ ChannelFills \/ ChannelDrains

\* the channel drains again and again, and the worker thread, which polls
\* the queue and the channel every 2 ms, gets its turn when both let it
LiveSpec ==
    /\ Init
    /\ [][LiveNext]_vars
    /\ WF_txroom(ChannelDrains)
    /\ ([]<>Ready => []<><<Popped>>_requests)

-----------------------------------------------------------------------------
(* Properties.  obs describes the turn the worker just made: its request,  *)
(* the state before it (obs.pre), what it transmitted and which filesystem *)
(* calls it made.                                                          *)

\* the worker has just made a turn
Worked == obs.kind = "worker"

\* the FILE_TRANSFER_PROTOCOL payloads of the last turn
Sent == FtpSent(obs.tx)

\* the last turn left fd, mode and current_session as they were
SessionKept ==
    /\ fd = obs.pre.fd
    /\ mode = obs.pre.mode
    /\ current_session = obs.pre.cs

\* the last turn transmitted exactly one reply, of that opcode
AnsweredWith(opcode) == Len(Sent) = 1 /\ Sent[1].opcode = opcode

\* the last turn's request is an open
IsOpen(request) == request.opcode \in {OpOpenFileRO, OpOpenFileWO, OpCreateFile}

\* does "close" come before call k of the last turn
ClosedBefore(k) == \E j \in 1..(k - 1) : obs.calls[j] = "close"

\* C1: whenever the worker is between requests, a file is open if and only
\* if a session is current: fd # none <=> current_session # none
C1_FdIffSession == (fd # NoFd) <=> (current_session # NoSession)

\* a turn that found a file open and left one open for another session: an
\* idle reclaim followed by a successful open
C1_Witness ==
    /\ Worked
    /\ obs.pre.fd # NoFd
    /\ fd # NoFd
    /\ current_session # obs.pre.cs

\* C2: at most one handle opened by the worker is not yet closed, it is the
\* one fd names, and every open was made while no file was open (none at
\* the start of the turn, or a close made earlier in the turn)
C2_OneHandle ==
    /\ Cardinality(DOMAIN handles) <= 1
    /\ fd = NoFd => DOMAIN handles = {}
    /\ fd # NoFd => DOMAIN handles = {fd}
    /\ \A k \in 1..Len(obs.calls) :
          obs.calls[k] = "open" => (obs.pre.fd = NoFd \/ ClosedBefore(k))

\* OpenFileRO of the owning session closed its stale file and opened again
C2_Witness ==
    /\ Worked
    /\ obs.pre.fd # NoFd
    /\ obs.pre.cs = obs.req.session
    /\ obs.calls = <<"close", "stat", "open">>
    /\ DOMAIN handles = {fd}

\* C3 as stated: a request with the sysid, compid, session and seq_number of
\* the request answered immediately before gets the reply last transmitted
\* for that request again, with no filesystem call and no change to fd,
\* mode or current_session
C3_RetransmitIdentical ==
    (Worked /\ obs.retx) =>
        /\ Sent = <<obs.prev_sent>>
        /\ obs.calls = <<>>
        /\ SessionKept

\* C4: the k-th reply a turn transmits (k = 1 for an ordinary reply and for
\* a retransmit from the cache, k = 1, 2, ... for the packets of a burst and
\* the Nack that ends it) carries the request's seq_number + k, modulo 2^16
C4_SeqNumber ==
    Worked =>
        \A k \in 1..Len(Sent) :
            Sent[k].seq_number = (obs.req.seq_number + k) % U16

\* a burst that sent two data packets and the Nack ending it
C4_Witness ==
    /\ Worked
    /\ obs.req.opcode = OpBurstReadFile
    /\ Len(Sent) = 3
    /\ Sent[3].opcode = OpNack

\* C4 as stated: every reply carries the request's seq_number + 1
C4_SeqPlusOne ==
    Worked =>
        \A k \in 1..Len(Sent) :
            Sent[k].seq_number = (obs.req.seq_number + 1) % U16

\* C5 as stated: every reply transmitted has req_opcode equal to the opcode
\* of the request that triggered it, the fast path included
C5_ReqOpcode ==
    Worked => \A k \in 1..Len(Sent) : Sent[k].req_opcode = obs.req.opcode

\* the case of C6: a request of at most 239 bytes that is no retransmit and
\* no TerminateSession or ResetSessions, from another session than the one
\* owning the open file, less than 3000 ms after last_send_ms
C6_Case ==
    /\ Worked
    /\ ~obs.fast
    /\ obs.req.size <= DataSize
    /\ obs.pre.fd # NoFd
    /\ obs.req.session # obs.pre.cs
    /\ obs.req.opcode \notin {OpTerminateSession, OpResetSessions}
    /\ U32Sub(obs.now, obs.pre.lsm) < FTP_SESSION_TIMEOUT

\* C6: in that case the answer is Nack InvalidSession of size 1, fd, mode
\* and current_session stay and no filesystem call is made
C6_InvalidSession ==
    C6_Case =>
        /\ AnsweredWith(OpNack)
        /\ Sent[1].size = 1
        /\ Sent[1].data = <<ErrInvalidSession>>
        /\ SessionKept
        /\ obs.calls = <<>>

\* an open of another session rejected while a file is open
C6_Witness == C6_Case /\ IsOpen(obs.req) /\ fd # NoFd

\* C7 as stated: while a session owns the open file and the last reply to
\* one of its requests left less than 3000 ms ago, a request of another
\* session neither closes the file nor changes current_session
C7_CrossSessionSafety ==
    (/\ Worked
     /\ obs.pre.fd # NoFd
     /\ obs.req.session # obs.pre.cs
     /\ obs.owner_tx # Never
     /\ obs.now - obs.owner_tx < FTP_SESSION_TIMEOUT) =>
        /\ fd = obs.pre.fd
        /\ current_session = obs.pre.cs
        /\ \A k \in 1..Len(obs.calls) : obs.calls[k] # "close"

\* the case of C8 but for the fast path: a file is open, nothing was
\* transmitted for 3000 ms or more, and another session sends an open with
\* a valid path that the filesystem lets succeed
C8_Case ==
    /\ Worked
    /\ obs.pre.fd # NoFd
    /\ obs.req.session # obs.pre.cs
    /\ IsOpen(obs.req)
    /\ ftp_check_name_len(obs.req)
    /\ obs.fault = NoFault
    /\ (obs.req.opcode = OpCreateFile \/ PathArg(obs.req) \in DOMAIN files)
    /\ obs.last_tx # Never
    /\ obs.now - obs.last_tx >= FTP_SESSION_TIMEOUT

\* what C8 promises: Ack, the old handle closed before the new one is
\* opened, and the file owned by the requesting session
C8_Claimed ==
    /\ AnsweredWith(OpAck)
    /\ \E k \in 1..Len(obs.calls) : obs.calls[k] = "open" /\ ClosedBefore(k)
    /\ fd # NoFd
    /\ DOMAIN handles = {fd}
    /\ current_session = obs.req.session

\* C8: after 3000 ms without a transmission, an open from another session
\* that is not answered from the retransmit cache is acked, closes the old
\* handle and leaves the file open for the new session
C8_Reclaim == (C8_Case /\ ~obs.fast) => C8_Claimed

\* a reclaim by CreateFile exactly 3000 ms after the last transmission
C8_Witness ==
    /\ C8_Case
    /\ ~obs.fast
    /\ obs.req.opcode = OpCreateFile
    /\ obs.now - obs.last_tx = FTP_SESSION_TIMEOUT
    /\ mode = ModeWrite

\* C8 as stated: the same of every open, one answered from the cache too
C8_ReclaimAlways == C8_Case => C8_Claimed

\* a TerminateSession of at most 239 bytes not answered from the cache
C9_Case ==
    /\ Worked
    /\ obs.req.opcode = OpTerminateSession
    /\ obs.req.size <= DataSize
    /\ ~obs.fast

\* C9: such a TerminateSession is acked; from the session owning the file
\* it leaves no file and no session, the handle closed once; and when the
\* turn before was an acked TerminateSession of the same session, fd, mode
\* and current_session stay as that one left them
C9_Terminate ==
    /\ C9_Case => AnsweredWith(OpAck)
    /\ (C9_Case /\ obs.pre.fd # NoFd /\ obs.req.session = obs.pre.cs) =>
          /\ fd = NoFd
          /\ current_session = NoSession
          /\ DOMAIN handles = {}
          /\ Count(obs.calls, "close") = 1
    /\ (/\ Worked
        /\ obs.req.opcode = OpTerminateSession
        /\ obs.req.size <= DataSize
        /\ obs.prev_term = obs.req.session) =>
          /\ AnsweredWith(OpAck)
          /\ SessionKept
          /\ obs.calls = <<>>

\* a second TerminateSession after one that closed nothing of its own,
\* while another session's file is open
C9_Witness ==
    /\ C9_Case
    /\ obs.prev_term = obs.req.session
    /\ fd # NoFd
    /\ AnsweredWith(OpAck)

\* C9 as stated: every TerminateSession is answered with Ack
C9_AlwaysAck ==
    (Worked /\ obs.req.opcode = OpTerminateSession) => AnsweredWith(OpAck)

\* the queue holds at most 5 requests, and what the decoder accepted is what
\* the worker popped followed by what is queued, in that order
C10_QueueInv ==
    requests # NullPtr =>
        /\ Len(requests) <= QueueSize
        /\ gcs.mode = "flood" => gcs.accepted = gcs.popped \o requests

\* a message decoded while the queue holds 5 changes neither the queue nor
\* the session state, and nothing is transmitted
C10_DropStep ==
    (/\ requests # NullPtr
     /\ Len(requests) = QueueSize
     /\ handle_file_transfer_protocol) =>
        /\ UNCHANGED <<requests, fd, mode, current_session, last_send_ms,
                       need_banner_send_mask, reply, files, handles>>
        /\ obs'.tx = <<>>

\* C10: the queue never holds more than 5 requests, a request arriving at a
\* full queue is dropped without a reply and without changing the queue or
\* the session state, and the worker pops the accepted requests in the
\* order they were pushed, however pushes and pops interleave
C10_Queue == [](C10_QueueInv) /\ [][C10_DropStep]_vars

\* a request was dropped at a full queue and the worker has popped since
C10_Witness ==
    /\ gcs.dropped > 0
    /\ gcs.popped # <<>>
    /\ requests # NullPtr
    /\ Len(requests) = QueueSize - 1

\* the state only the worker may touch
SessionState ==
    <<fd, mode, current_session, last_send_ms, need_banner_send_mask, reply,
      files, handles>>

\* C11: a step that reads into or writes fd, mode, current_session,
\* last_send_ms, need_banner_send_mask, the cached reply or the filesystem,
\* or that calls the filesystem or transmits a reply, is a turn of the
\* worker; so a step of the decoder changes the request queue only
C11_OnlyWorker ==
    [][(\/ SessionState' # SessionState
        \/ obs'.tx # <<>>
        \/ obs'.calls # <<>>) => WorkerTurn]_vars

\* the decoder has queued a request while a file is open, and the open file
\* and its session are as the worker left them
C11_Witness ==
    /\ obs.kind = "none"
    /\ fd # NoFd
    /\ requests # NullPtr
    /\ Len(requests) = 1
    /\ DOMAIN handles = {fd}

\* a ReadFile of the session that made the last acked write, at the offset
\* and with the size of that write, the file not written since and the
\* filesystem not failing
C12_Case ==
    /\ Worked
    /\ obs.req.opcode = OpReadFile
    /\ obs.written # <<>>
    /\ obs.written.session = obs.req.session
    /\ obs.written.offset = obs.req.offset
    /\ Len(obs.written.data) = obs.req.size
    /\ obs.fault = NoFault

\* the answer is Ack with the bytes written
C12_ReadsBack ==
    /\ AnsweredWith(OpAck)
    /\ Sent[1].size = Len(obs.written.data)
    /\ Sent[1].data = Trim(obs.written.data)
    /\ Sent[1].offset = obs.req.offset

\* C12: after an acked WriteFile of one byte or more, a ReadFile of the same
\* session at the same offset and with the same size, made once the file has
\* been closed and opened again for reading by OpenFileRO and not answered
\* from the retransmit cache, is answered with Ack carrying the bytes written
C12_WriteThenRead ==
    (/\ C12_Case
     /\ ~obs.fast
     /\ Len(obs.written.data) >= 1
     /\ obs.pre.fd # NoFd
     /\ obs.pre.mode = ModeRead
     /\ handles[fd].path = obs.written.path) => C12_ReadsBack

\* the bytes written were read back from the file opened again
C12_Witness ==
    /\ C12_Case
    /\ obs.pre.mode = ModeRead
    /\ ~obs.fast
    /\ obs.calls = <<"lseek", "read">>
    /\ C12_ReadsBack

\* C12 as stated: the ReadFile that follows the acked WriteFile in the same
\* session is answered with Ack carrying the bytes written
C12_WriteThenReadAlways == C12_Case => C12_ReadsBack

\* C13 as stated: a request whose opcode is Ack or Nack never has a reply
\* transmitted, whatever came before it
C13_NoReplyToAck ==
    (Worked /\ obs.req.opcode \in {OpAck, OpNack}) => obs.tx = <<>>

\* the data Acks of the last turn
Acks == SelectSeq(Sent, LAMBDA e : e.opcode = OpAck)

\* max_read of a BurstReadFile
MaxRead(request) == IF request.size = 0 THEN DataSize ELSE request.size

\* the sizes of replies lo .. hi of s, added up
RECURSIVE SumSizes(_, _, _)
SumSizes(s, lo, hi) ==
    IF lo > hi THEN 0
    ELSE IF lo = hi THEN s[lo].size
    ELSE SumSizes(s, lo, (lo + hi) \div 2) + SumSizes(s, (lo + hi) \div 2 + 1, hi)

\* the bytes a burst can deliver: from request.offset to the end of the
\* open file, at most transfer_size chunks
BurstBytes ==
    LET left == Len(files[handles[fd].path]) - obs.req.offset
    IN Min(IF left < 0 THEN 0 ELSE left, transfer_size * MaxRead(obs.req))

\* the last turn dispatched a BurstReadFile and transmitted a data Ack
C14_Case ==
    /\ Worked
    /\ obs.req.opcode = OpBurstReadFile
    /\ ~obs.fast
    /\ Acks # <<>>

\* C14: the last data Ack of a dispatched BurstReadFile carries
\* burst_complete = 1 exactly when it is shorter than max_read or is the
\* 500th; when no read fails the sizes of the Acks add up to the bytes
\* between request.offset and the end of the file, at most 500 * max_read
C14_BurstTotal ==
    C14_Case =>
        /\ Acks[Len(Acks)].burst_complete = 1
               <=> (\/ Acks[Len(Acks)].size < MaxRead(obs.req)
                    \/ Len(Acks) = transfer_size)
        /\ obs.fault = NoFault => SumSizes(Acks, 1, Len(Acks)) = BurstBytes

\* a burst over an exact multiple of max_read: 499 full Acks, none with
\* burst_complete, then the EndOfFile Nack
C14_Witness ==
    /\ C14_Case
    /\ obs.fault = NoFault
    /\ Len(Acks) = transfer_size - 1
    /\ Acks[Len(Acks)].burst_complete = 0
    /\ Acks[Len(Acks)].size = MaxRead(obs.req)
    /\ Sent[Len(Sent)].opcode = OpNack
    /\ SumSizes(Acks, 1, Len(Acks)) = BurstBytes

\* C14 as stated: the last data Ack of every BurstReadFile that transmits
\* one carries burst_complete = 1, and the sizes of the Acks add up to the
\* bytes between request.offset and the end of the file, at most
\* 500 * max_read
C14_LastAckComplete ==
    C14_Case =>
        /\ Acks[Len(Acks)].burst_complete = 1
        /\ SumSizes(Acks, 1, Len(Acks)) = BurstBytes

\* the opcodes the switch has a case for, TruncateFile apart
Supported ==
    {OpNone, OpTerminateSession, OpResetSessions, OpListDirectory, OpOpenFileRO,
     OpReadFile, OpAck, OpNack, OpOpenFileWO, OpCreateFile, OpWriteFile,
     OpCreateDirectory, OpRemoveDirectory, OpRemoveFile, OpCalcFileCRC32,
     OpBurstReadFile, OpRename}

\* the last turn answered with one Nack of that error code
NackedWith(error) ==
    /\ AnsweredWith(OpNack)
    /\ Sent[1].size = 1
    /\ Sent[1].data = <<error>>

\* the last turn answered with a protocol-error Nack
C15_Case ==
    /\ Worked
    /\ \/ NackedWith(ErrInvalidDataSize)
       \/ NackedWith(ErrInvalidSession)
       \/ NackedWith(ErrFail) /\ (IsOpen(obs.req) \/ obs.req.opcode \notin Supported)

\* the last turn found an idle file to reclaim before its switch or in
\* OpenFileRO
C15_ReclaimDue ==
    /\ ~obs.fast
    /\ obs.req.size <= DataSize
    /\ obs.pre.fd # NoFd
    /\ \/ /\ obs.req.session # obs.pre.cs
          /\ U32Sub(obs.now, obs.pre.lsm) >= FTP_SESSION_TIMEOUT
       \/ /\ obs.req.opcode = OpOpenFileRO
          /\ U32Sub(obs.now, obs.pre.lsm) > FTP_SESSION_TIMEOUT

\* the last turn left the session state alone and closed nothing
C15_Kept == SessionKept /\ Count(obs.calls, "close") = 0

\* C15: a request answered with a protocol-error Nack leaves fd, mode and
\* current_session as they were and closes no file, unless the turn first
\* reclaimed an idle file; then the file is closed and fd and
\* current_session are cleared, mode being left as it was
C15_ProtocolError ==
    C15_Case =>
        IF C15_ReclaimDue
        THEN /\ fd = NoFd
             /\ current_session = NoSession
             /\ mode = obs.pre.mode
             /\ obs.calls = <<"close">>
        ELSE C15_Kept

\* an unknown opcode from the owner of the open file, answered Nack Fail
C15_Witness ==
    /\ C15_Case
    /\ ~obs.fast
    /\ obs.req.opcode \notin Supported
    /\ obs.pre.fd # NoFd
    /\ obs.req.session = obs.pre.cs
    /\ C15_Kept

\* C15 as stated: every request answered with a protocol-error Nack leaves
\* fd, mode and current_session as they were and closes no file
C15_ProtocolErrorAlways == C15_Case => C15_Kept

\* the last turn reached the switch on the opcode: no retransmission, no
\* oversized request, no early ack and no InvalidSession
Switched ==
    /\ Worked
    /\ ~obs.fast
    /\ obs.req.size <= DataSize
    /\ ~(/\ obs.req.session # obs.pre.cs
         /\ obs.req.opcode \in {OpTerminateSession, OpResetSessions})
    /\ ~(/\ obs.pre.fd # NoFd
         /\ obs.req.session # obs.pre.cs
         /\ U32Sub(obs.now, obs.pre.lsm) < FTP_SESSION_TIMEOUT)

\* the last turn closed an idle file of another session before its switch
Reclaimed == Switched /\ obs.pre.fd # NoFd /\ obs.req.session # obs.pre.cs

\* fd as the switch of the last turn found it
FdAtSwitch == IF Reclaimed THEN NoFd ELSE obs.pre.fd

\* the filesystem calls made in the switch of the last turn
CallsInSwitch == IF Reclaimed THEN Tail(obs.calls) ELSE obs.calls

\* the last turn's request reads or writes the open file
C16_Rw == Worked /\ obs.req.opcode \in {OpReadFile, OpBurstReadFile, OpWriteFile}

\* the mode the last turn's request needs
C16_Needed == IF obs.req.opcode = OpWriteFile THEN ModeWrite ELSE ModeRead

\* the mode an open of the last turn's opcode selects
C16_Selected == IF obs.req.opcode = OpOpenFileRO THEN ModeRead ELSE ModeWrite

\* C16: mode changes only in a turn whose open succeeds, to Read for
\* OpenFileRO and to Write for CreateFile and OpenFileWO, and not while the
\* file stays open; a ReadFile or BurstReadFile that reaches the switch
\* calls lseek and read only with a file open in Read mode, a WriteFile
\* lseek and write only with a file open in Write mode; with no file open
\* they are answered Nack FileNotFound, with the file in the other mode
\* Nack Fail, without a filesystem call; one that does not reach the switch
\* makes no filesystem call
C16_ModeGate ==
    /\ (Worked /\ mode # obs.pre.mode) =>
           /\ Switched /\ IsOpen(obs.req) /\ AnsweredWith(OpAck)
           /\ (obs.pre.fd = NoFd \/ obs.calls[1] = "close")
    /\ (Switched /\ IsOpen(obs.req) /\ AnsweredWith(OpAck)) =>
           fd # NoFd /\ mode = C16_Selected
    /\ (C16_Rw /\ Switched) =>
           IF FdAtSwitch = NoFd
           THEN NackedWith(ErrFileNotFound) /\ CallsInSwitch = <<>>
           ELSE IF obs.pre.mode # C16_Needed
           THEN NackedWith(ErrFail) /\ CallsInSwitch = <<>>
           ELSE /\ CallsInSwitch # <<>>
                /\ CallsInSwitch[1] = "lseek"
                /\ \A k \in 2..Len(CallsInSwitch) :
                       CallsInSwitch[k] = IF obs.req.opcode = OpWriteFile
                                          THEN "write" ELSE "read"
    /\ (C16_Rw /\ ~Switched) => obs.calls = <<>>

\* a ReadFile on a file that is open for writing, answered Nack Fail
C16_Witness ==
    /\ C16_Rw
    /\ Switched
    /\ obs.req.opcode = OpReadFile
    /\ FdAtSwitch # NoFd
    /\ obs.pre.mode = ModeWrite
    /\ NackedWith(ErrFail)
    /\ obs.calls = <<>>
    /\ SessionKept

\* C16 as stated: a ReadFile, BurstReadFile or WriteFile that does not find
\* the file open in its mode is answered Nack FileNotFound (no file open)
\* or Nack Fail (other mode) without a filesystem call
C16_GateAlways ==
    (C16_Rw /\ ~(obs.pre.fd # NoFd /\ obs.pre.mode = C16_Needed)) =>
        /\ obs.calls = <<>>
        /\ IF obs.pre.fd = NoFd THEN NackedWith(ErrFileNotFound)
           ELSE NackedWith(ErrFail)

\* the last turn's request is a CreateFile or an OpenFileWO
C17_Case == Worked /\ obs.req.opcode \in {OpCreateFile, OpOpenFileWO}

\* C17: a CreateFile or OpenFileWO calls open only when the switch finds no
\* file open; one from the session that owns the open file which reaches
\* the switch is answered Nack Fail, whatever the idle time, without a
\* filesystem call, fd, mode and current_session staying as they were
C17_OpenWhileOpen ==
    /\ (C17_Case /\ Count(obs.calls, "open") > 0) =>
           Switched /\ FdAtSwitch = NoFd /\ Count(obs.calls, "open") = 1
    /\ (C17_Case /\ Switched /\ obs.pre.fd # NoFd
          /\ obs.req.session = obs.pre.cs) =>
           /\ NackedWith(ErrFail)
           /\ obs.calls = <<>>
           /\ SessionKept

\* the owner's second CreateFile or OpenFileWO, more than the timeout after
\* the last reply: Nack Fail, the file stays open
C17_Witness ==
    /\ C17_Case
    /\ Switched
    /\ obs.pre.fd # NoFd
    /\ obs.req.session = obs.pre.cs
    /\ U32Sub(obs.now, obs.pre.lsm) > FTP_SESSION_TIMEOUT
    /\ NackedWith(ErrFail)
    /\ fd = obs.pre.fd
    /\ fd \in DOMAIN handles

\* the last turn's OpenFileRO reached the switch and found a file open
C18_Case ==
    /\ Switched
    /\ obs.req.opcode = OpOpenFileRO
    /\ FdAtSwitch # NoFd

\* C18: an OpenFileRO that reaches the switch while a file is open, more
\* than 3000 ms after the last send, first closes that file and clears fd
\* and current_session, and only then looks at the new path; at 3000 ms or
\* less it is answered Nack Fail and the open file is left as it is
C18_SecondChance ==
    C18_Case =>
        IF U32Sub(obs.now, obs.pre.lsm) > FTP_SESSION_TIMEOUT
        THEN /\ obs.calls # <<>>
             /\ obs.calls[1] = "close"
             /\ Count(obs.calls, "close") = 1
             /\ IF AnsweredWith(OpAck)
                THEN /\ fd # NoFd
                     /\ current_session = obs.req.session
                     /\ obs.calls = <<"close", "stat", "open">>
                ELSE fd = NoFd /\ current_session = NoSession
        ELSE /\ NackedWith(ErrFail)
             /\ obs.calls = <<>>
             /\ SessionKept

\* the idle file is closed and the new open succeeds
C18_Witness ==
    /\ C18_Case
    /\ U32Sub(obs.now, obs.pre.lsm) > FTP_SESSION_TIMEOUT
    /\ obs.calls = <<"close", "stat", "open">>
    /\ AnsweredWith(OpAck)
    /\ fd # NoFd

\* the last turn's BurstReadFile reached the switch
C19_Case == Switched /\ obs.req.opcode = OpBurstReadFile

\* the last turn's switch found a file open for reading and no call failed
C19_Reading ==
    /\ FdAtSwitch # NoFd
    /\ obs.pre.mode = ModeRead
    /\ obs.fault = NoFault

\* the last reply of the last turn is the EndOfFile Nack
EndsWithEof ==
    /\ Sent # <<>>
    /\ Sent[Len(Sent)].opcode = OpNack
    /\ Sent[Len(Sent)].size = 1
    /\ Sent[Len(Sent)].data = <<ErrEndOfFile>>

\* C19: a BurstReadFile that reaches the switch causes at most 500 data
\* Acks, all sent before any Nack; Ack i (from 0) has offset
\* request.offset + i * max_read, at least one byte, and burst_complete = 1
\* exactly when it is shorter than max_read or i = 499; when no call fails,
\* a burst of fewer than 500 Acks has read all the bytes up to the end of
\* the file, and its one further read, of 0 bytes, is answered with the
\* EndOfFile Nack
C19_BurstAcks ==
    C19_Case =>
        /\ Len(Acks) <= transfer_size
        /\ \A k \in 1..Len(Acks) :
              /\ Sent[k] = Acks[k]
              /\ Acks[k].offset = obs.req.offset + (k - 1) * MaxRead(obs.req)
              /\ Acks[k].size >= 1
              /\ Acks[k].size <= MaxRead(obs.req)
              /\ Acks[k].burst_complete = 1
                    <=> (Acks[k].size < MaxRead(obs.req) \/ k - 1 = transfer_size - 1)
        /\ C19_Reading =>
              IF Len(Acks) = transfer_size
              THEN Sent = Acks /\ Count(obs.calls, "read") = transfer_size
              ELSE /\ Len(Sent) = Len(Acks) + 1
                   /\ EndsWithEof
                   /\ Count(obs.calls, "read") = Len(Acks) + 1
                   /\ SumSizes(Acks, 1, Len(Acks)) = BurstBytes

\* a burst that is cut at 500 Acks: the last is a full chunk at offset
\* request.offset + 499 * max_read with burst_complete = 1
C19_Witness ==
    /\ C19_Case
    /\ C19_Reading
    /\ Len(Acks) = transfer_size
    /\ Acks[transfer_size].size = MaxRead(obs.req)
    /\ Acks[transfer_size].burst_complete = 1
    /\ Acks[transfer_size].offset =
          obs.req.offset + (transfer_size - 1) * MaxRead(obs.req)
    /\ Acks[transfer_size - 1].burst_complete = 0

\* the last turn's BurstReadFile reached the switch and sent something
C20_Case == Switched /\ obs.req.opcode = OpBurstReadFile /\ Sent # <<>>

\* C20: a BurstReadFile that reaches the switch transmits no reply twice:
\* the replies carry consecutive sequence numbers from request.seq_number
\* + 1; when the last reply built is an Ack the loop has sent 500 Acks and
\* nothing follows them; when it is a Nack the Acks are followed by that
\* Nack, once, and a request that fails before the loop sends the Nack
\* only; so the transmissions are the Acks, and one more for a Nack
C20_NoDuplicate ==
    (Switched /\ obs.req.opcode = OpBurstReadFile) =>
        /\ \A k \in 1..Len(Sent) :
              Sent[k].seq_number = (obs.req.seq_number + k) % U16
        /\ reply.opcode \in {OpAck, OpNack}
        /\ reply.opcode = OpAck =>
              /\ Sent = Acks
              /\ Len(Acks) = transfer_size
              /\ Count(obs.calls, "read") = transfer_size
        /\ reply.opcode = OpNack =>
              /\ Len(Sent) = Len(Acks) + 1
              /\ Sent[Len(Sent)].opcode = OpNack
              /\ Count(obs.calls, "read") \in {0, Len(Acks) + 1}
        /\ (Count(obs.calls, "read") = 0) =>
              /\ AnsweredWith(OpNack)
              /\ reply.opcode = OpNack

\* a burst cut at 500 Acks: 500 transmissions and no trailing one
C20_Witness ==
    /\ C20_Case
    /\ reply.opcode = OpAck
    /\ Len(Sent) = transfer_size
    /\ Sent[transfer_size].opcode = OpAck
    /\ Sent[transfer_size].seq_number = (obs.req.seq_number + transfer_size) % U16
    /\ reply.seq_number = (obs.req.seq_number + transfer_size + 1) % U16

\* C21 as stated: between requests the cached reply is, field by field, the
\* last reply transmitted: a turn that transmits leaves its last
\* transmission in the cache, a turn that transmits nothing leaves the
\* cache as it was
C21_CacheIsLastSent ==
    Worked =>
        IF Sent # <<>> THEN send_ftp_reply(reply) = Sent[Len(Sent)]
        ELSE reply = obs.pre.reply

\* the banners among what the last turn emitted
Banners == SelectSeq(obs.tx, LAMBDA e : e.kind = "banner")

\* the last turn opened "@PARAM/param.pck..." for reading
C22_Case ==
    /\ Switched
    /\ obs.req.opcode = OpOpenFileRO
    /\ IsParamPck(obs.req.data)
    /\ AnsweredWith(OpAck)
    /\ Count(obs.calls, "open") = 1

\* C22: a turn emits a banner only when it opens a path starting with
\* "@PARAM/param.pck" with OpenFileRO; it then emits one banner, right after
\* the Ack of the open, which goes out on the channel of the request; the
\* bit of the channel is clear again when the turn ends, so failed opens,
\* other paths, retransmissions and later replies emit no banner
C22_BannerOnce ==
    /\ need_banner_send_mask = 0
    /\ Worked =>
          IF C22_Case
          THEN /\ Len(obs.tx) = 2
               /\ obs.tx[1].kind = "ftp"
               /\ obs.tx[1].opcode = OpAck
               /\ obs.tx[1].req_opcode = OpOpenFileRO
               /\ obs.tx[1].chan = obs.req.chan
               /\ obs.tx[2].kind = "banner"
          ELSE Banners = <<>>

\* the open of the parameter file on channel 1: its Ack, then the banner
C22_Witness ==
    /\ C22_Case
    /\ obs.req.chan = 1
    /\ Len(obs.tx) = 2
    /\ obs.tx[1].kind = "ftp"
    /\ obs.tx[1].chan = 1
    /\ obs.tx[2].kind = "banner"
    /\ need_banner_send_mask = 0

\* the last turn transmitted, its last reply being one to a TerminateSession
TerminateReplied ==
    /\ Worked
    /\ Sent # <<>>
    /\ Sent[Len(Sent)].req_opcode = OpTerminateSession

\* C23 as stated: after a reply to a TerminateSession last_send_ms is 0, and
\* a request that finds last_send_ms = 0 after such a reply, whatever the
\* time, does not make the worker close the open file
C23_ZeroDisablesReclaim ==
    /\ TerminateReplied => last_send_ms = 0
    /\ (/\ Worked
        /\ obs.prev_term # NoSession
        /\ obs.pre.lsm = 0
        /\ obs.pre.fd # NoFd
        /\ obs.req.opcode \notin {OpTerminateSession, OpResetSessions}) =>
           /\ Count(obs.calls, "close") = 0
           /\ fd = obs.pre.fd

\* the last turn's request has seq_number 65535 and the sender and session
\* of the cached reply, whose seq_number is 0
C24_Case ==
    /\ Worked
    /\ obs.req.seq_number = U16 - 1
    /\ obs.pre.reply.seq_number = 0
    /\ obs.req.sysid = obs.pre.reply.sysid
    /\ obs.req.compid = obs.pre.reply.compid
    /\ obs.req.session = obs.pre.reply.session

\* C24 as stated: a request with seq_number 65535 that finds its sender and
\* session in the cached reply, whose seq_number is 0, is served from the
\* cache and not dispatched
C24_WrapRetransmit ==
    C24_Case =>
        /\ obs.fast
        /\ obs.calls = <<>>
        /\ Len(Sent) = 1
        /\ Sent[1] = send_ftp_reply(obs.pre.reply)

\* the entries of a listing that can be listed: regular files, symlinks
\* and directories whose stat succeeds
Listable(entry) ==
    /\ entry.d_type \in {"DT_REG", "DT_LNK", "DT_DIR"}
    /\ entry.stat_ok

\* the record of a listable entry: "D<name>" or "F<name>\t<size>"
Record(entry) ==
    IF entry.d_type = "DT_DIR" THEN <<68>> \o entry.name
    ELSE <<70>> \o entry.name \o <<9>> \o Digits(entry.size)

\* the records of the listable entries of a directory, in readdir order
Listing(dir) ==
    LET s == SelectSeq(dir, Listable)
    IN [k \in 1..Len(s) |-> Record(s[k])]

\* the directory the ground station lists
ListedDir == FS_opendir(<<>>, NoFault, gcs.list.path).dir

\* C26 as stated: when a paged listing is answered EndOfFile, the ground
\* station has got the record of every listable entry of the directory
\* exactly once, in readdir order; and until then what it has got is the
\* beginning of that
C26_PagedComplete ==
    gcs.mode = "list" =>
        /\ Len(gcs.list.got) <= Len(Listing(ListedDir))
        /\ gcs.list.got = SubSeq(Listing(ListedDir), 1, Len(gcs.list.got))
        /\ gcs.list.state = "eof" => gcs.list.got = Listing(ListedDir)

\* every record of the directory listed fits a reply's data
C26_AllFit ==
    \A k \in 1..Len(ListedDir) :
        Listable(ListedDir[k]) => Len(Record(ListedDir[k])) + 1 < DataSize

\* paged listing of a directory whose records all fit is complete
C26_CompleteWhenFit == C26_AllFit => C26_PagedComplete

\* a listing of more than one page ended complete
C26_Paged ==
    /\ gcs.mode = "list"
    /\ gcs.list.state = "eof"
    /\ gcs.list.path = PathD
    /\ gcs.list.got = Listing(PagedDir)

\* a request waits in the queue
Pending == requests # NullPtr /\ requests # <<>>

\* the worker made a turn and transmitted on it, or the turn was on a
\* request that gets no reply
Served == Worked /\ (obs.req.opcode \in {OpAck, OpNack} \/ Sent # <<>>)

====
